---- MODULE Spec2Model ----
(***************************************************************************)
(* A model of the IntelliNote math core: the LaTeX normalizer              *)
(* (FastMathSolver._clean_latex), the structural validator                 *)
(* (FastMathSolver._validate_equation), the equation classifier            *)
(* (EquationClassifier) and the request pipelines (fast_solve and          *)
(* SmartMathEngine.process).                                               *)
(*                                                                         *)
(* Text is a sequence of characters; a character is a one-character        *)
(* string, and a non-ASCII character is written by name ("U_int" is the    *)
(* integral sign, "U_arrow" the rightwards arrow, "U_sup2" superscript 2). *)
(***************************************************************************)
EXTENDS Integers, Sequences, FiniteSets, TLC

VARIABLES
    nText,      \* normalizer run: the input string
    nOnce,      \* normalizer run: _clean_latex(nText)
    nTwice,     \* normalizer run: _clean_latex(_clean_latex(nText))
    nPc,        \* normalizer run: "start", "once", "twice"
    vEquation,  \* validator call: the equation
    vOperation, \* validator call: the operation type
    vParse,     \* validator call: what the parser does when it is consulted
    vResult,    \* validator call: what the call produced
    vPc,        \* validator call: "start", "done"
    cText,      \* classifier: the input text
    cFirst,     \* classifier: what the first classify(cText) produced
    cSecond,    \* classifier: what the second classify(cText) produced
    cPc,        \* classifier: "start", "once", "twice"
    rEntry,     \* request: the entry point, "fast_solve" or "process"
    rEquation,  \* request: the equation argument
    rHint,      \* request: the note_type argument
    rNoteType,  \* fast_solve: the local note_type
    rEq,        \* fast_solve: the local equation
    rResult,    \* fast_solve: the solver's result
    rStages,    \* request: the stages that ran on the input, in order
    rResponse,  \* request: the dict returned to the caller
    rPc,        \* request: "start", "routed", "solved", "done"
    _fast_solver, \* the module global: 0 while it is None, else the instance it holds
    sConstructed, \* how many times FastMathSolver() has been constructed
    sPc,        \* get_fast_solver, per thread: "test", "construct", "store", "return", "done"
    sNew,       \* get_fast_solver, per thread: the instance its constructor call made
    sReturned,  \* get_fast_solver, per thread: the value the call returned
    hExists,    \* history: whether MATH_HISTORY_FILE exists
    hLines,     \* history: the lines of MATH_HISTORY_FILE, oldest first
    hClock,     \* history: the requests served so far (the clock of the timestamps)
    hReply      \* history: what the last API operation returned

nvars == <<nText, nOnce, nTwice, nPc>>
vvars == <<vEquation, vOperation, vParse, vResult, vPc>>
cvars == <<cText, cFirst, cSecond, cPc>>
rvars == <<rEntry, rEquation, rHint, rNoteType, rEq, rResult, rStages, rResponse, rPc>>
svars == <<_fast_solver, sConstructed, sPc, sNew, sReturned>>
hvars == <<hExists, hLines, hClock, hReply>>
vars  == <<nvars, vvars, cvars, rvars, svars, hvars>>

----------------------------------------------------------------------------
(* Characters *)

BS == "\\"

LowerLetters ==
    {"a","b","c","d","e","f","g","h","i","j","k","l","m",
     "n","o","p","q","r","s","t","u","v","w","x","y","z"}

UpperLetters ==
    {"A","B","C","D","E","F","G","H","I","J","K","L","M",
     "N","O","P","Q","R","S","T","U","V","W","X","Y","Z"}

Letters == LowerLetters \cup UpperLetters

Digits == {"0","1","2","3","4","5","6","7","8","9"}

\* Python's \s for the characters that occur here
Whitespace == {" ", "\t", "\n"}

GreekLower ==
    {"U_pi","U_theta","U_phi","U_alpha","U_beta","U_gamma","U_delta",
     "U_epsilon","U_zeta","U_eta","U_iota","U_kappa","U_lambda","U_mu",
     "U_nu","U_xi","U_omicron","U_rho","U_sigma","U_tau","U_upsilon",
     "U_chi","U_psi","U_omega"}

GreekUpper ==
    {"U_Gamma","U_Delta","U_Theta","U_Lambda","U_Xi","U_Pi","U_Sigma",
     "U_Upsilon","U_Phi","U_Psi","U_Omega"}

SuperSubscripts ==
    {"U_sup0","U_sup1","U_sup2","U_sup3","U_sup4","U_sup5","U_sup6","U_sup7",
     "U_sup8","U_sup9","U_supn",
     "U_sub0","U_sub1","U_sub2","U_sub3","U_sub4","U_sub5","U_sub6","U_sub7",
     "U_sub8","U_sub9"}

\* \w: the letters, the digits and the underscore; the superscript and
\* subscript digits are alphanumeric characters too
WordChars == Letters \cup Digits \cup {"_"} \cup GreekLower \cup GreekUpper \cup SuperSubscripts

LowerOf ==
    [c \in UpperLetters \cup GreekUpper |->
        CASE c = "A" -> "a" [] c = "B" -> "b" [] c = "C" -> "c" [] c = "D" -> "d"
          [] c = "E" -> "e" [] c = "F" -> "f" [] c = "G" -> "g" [] c = "H" -> "h"
          [] c = "I" -> "i" [] c = "J" -> "j" [] c = "K" -> "k" [] c = "L" -> "l"
          [] c = "M" -> "m" [] c = "N" -> "n" [] c = "O" -> "o" [] c = "P" -> "p"
          [] c = "Q" -> "q" [] c = "R" -> "r" [] c = "S" -> "s" [] c = "T" -> "t"
          [] c = "U" -> "u" [] c = "V" -> "v" [] c = "W" -> "w" [] c = "X" -> "x"
          [] c = "Y" -> "y" [] c = "Z" -> "z"
          [] c = "U_Gamma" -> "U_gamma" [] c = "U_Delta" -> "U_delta"
          [] c = "U_Theta" -> "U_theta" [] c = "U_Lambda" -> "U_lambda"
          [] c = "U_Xi" -> "U_xi" [] c = "U_Pi" -> "U_pi" [] c = "U_Sigma" -> "U_sigma"
          [] c = "U_Upsilon" -> "U_upsilon" [] c = "U_Phi" -> "U_phi"
          [] c = "U_Psi" -> "U_psi" [] c = "U_Omega" -> "U_omega"]

\* str.lower(), character by character
ToLower(s) == [i \in 1..Len(s) |-> IF s[i] \in DOMAIN LowerOf THEN LowerOf[s[i]] ELSE s[i]]

----------------------------------------------------------------------------
(* String primitives of the source language *)

Max(S) == CHOOSE m \in S : \A n \in S : n <= m
Min(S) == CHOOSE m \in S : \A n \in S : m <= n

\* s[i:] starts with w
StartsAt(s, i, w) ==
    /\ i + Len(w) - 1 <= Len(s)
    /\ \A k \in 1..Len(w) : s[i + k - 1] = w[k]

\* w in s
Contains(s, w) == \E i \in 1..(Len(s) - Len(w) + 1) : StartsAt(s, i, w)

\* s.count(c) for a single character c
CountChar(s, c) == Cardinality({i \in 1..Len(s) : s[i] = c})

\* s.replace(old, new): left to right, non-overlapping; old is not empty
RECURSIVE ReplaceFrom(_, _, _, _)
ReplaceFrom(s, from, old, new) ==
    LET hits == {i \in from..(Len(s) - Len(old) + 1) : StartsAt(s, i, old)}
    IN  IF hits = {} THEN SubSeq(s, from, Len(s))
        ELSE SubSeq(s, from, Min(hits) - 1) \o new
               \o ReplaceFrom(s, Min(hits) + Len(old), old, new)

Replace(s, old, new) == ReplaceFrom(s, 1, old, new)

\* s.strip()
Strip(s) ==
    LET inked == {i \in 1..Len(s) : s[i] \notin Whitespace}
    IN  IF inked = {} THEN <<>> ELSE SubSeq(s, Min(inked), Max(inked))

\* ' '.join(s.split()): strip, and every run of whitespace becomes one space
JoinSplit(s) ==
    LET t     == Strip(s)
        keep  == [i \in 1..Len(t) |->
                    IF t[i] \notin Whitespace THEN <<t[i]>>
                    ELSE IF t[i - 1] \in Whitespace THEN <<>> ELSE <<" ">>]
        Kept(x) == x /= <<>>
        kept  == SelectSeq(keep, Kept)
    IN  [i \in 1..Len(kept) |-> kept[i][1]]

----------------------------------------------------------------------------
(* Regular expressions (module re).  A pattern is a sequence of atoms:     *)
(*   Lit(w)       the literal string w                                     *)
(*   Cls(cs, q)   a character of the set cs,     repeated as q says        *)
(*   NCls(cs, q)  a character not in the set cs, repeated as q says        *)
(*   Alt(ws)      one of the literal strings of the sequence ws            *)
(*   WB           \b                                                       *)
(* q is "one", "opt" for ?, "star" for the Kleene star, "plus" for +,      *)
(* "two" for {2,}, or "lazy" for the non-greedy +?.                        *)

Lit(w) == [k |-> "lit", w |-> w]
Cls(cs, q) == [k |-> "cls", cs |-> cs, neg |-> FALSE, q |-> q]
NCls(cs, q) == [k |-> "cls", cs |-> cs, neg |-> TRUE, q |-> q]
Alt(ws) == [k |-> "alt", ws |-> ws]
WB == [k |-> "wb"]

QMin(q) == CASE q = "one" -> 1 [] q = "opt" -> 0 [] q = "star" -> 0
             [] q = "plus" -> 1 [] q = "two" -> 2 [] q = "lazy" -> 1

QBounded(q) == q \in {"one", "opt"}

InCls(a, c) == IF a.neg THEN c \notin a.cs ELSE c \in a.cs

\* the length of the longest run of characters of the class a from position i
RunLen(a, s, i) ==
    Min({j \in i..(Len(s) + 1) : j > Len(s) \/ ~InCls(a, s[j])}) - i

IsWordAt(s, i) == i >= 1 /\ i <= Len(s) /\ s[i] \in WordChars

\* the positions just after a match of the atom a that starts at position i
AtomEnds(a, s, i) ==
    CASE a.k = "lit" -> IF StartsAt(s, i, a.w) THEN {i + Len(a.w)} ELSE {}
      [] a.k = "cls" ->
            LET run == RunLen(a, s, i)
                hi  == IF QBounded(a.q) THEN Min({1, run}) ELSE run
            IN  {i + m : m \in QMin(a.q)..hi}
      [] a.k = "alt" ->
            {i + Len(a.ws[n]) : n \in {n \in 1..Len(a.ws) : StartsAt(s, i, a.ws[n])}}
      [] a.k = "wb" -> IF IsWordAt(s, i - 1) /= IsWordAt(s, i) THEN {i} ELSE {}

\* whether atoms k.. of the pattern p match at position i
RECURSIVE MatchesAt(_, _, _, _)
MatchesAt(p, k, s, i) ==
    IF k > Len(p) THEN TRUE
    ELSE \E j \in AtomEnds(p[k], s, i) : MatchesAt(p, k + 1, s, j)

\* re.search(p, s) is not None
Search(p, s) == \E i \in 1..(Len(s) + 1) : MatchesAt(p, 1, s, i)

\* the match of atoms k.. at position i that the backtracking matcher finds
\* first, as the sequence of the positions after each atom: a greedy
\* quantifier takes the longest alternative of its atom that lets the rest
\* match, and the non-greedy one the shortest
RECURSIVE GreedyEnds(_, _, _, _)
GreedyFrom(p, k, s, j) == <<j>> \o GreedyEnds(p, k + 1, s, j)

IsLazy(a) == a.k = "cls" /\ a.q = "lazy"

GreedyEnds(p, k, s, i) ==
    IF k > Len(p) THEN <<>>
    ELSE IF IsLazy(p[k])
    THEN GreedyFrom(p, k, s, Min({j \in AtomEnds(p[k], s, i) : MatchesAt(p, k + 1, s, j)}))
    ELSE GreedyFrom(p, k, s, Max({j \in AtomEnds(p[k], s, i) : MatchesAt(p, k + 1, s, j)}))

\* the least element of a set of positions, or 0 when there is none
MinOrZero(S) == IF S = {} THEN 0 ELSE Min(S)

\* the start of the leftmost match at or after position from, or 0
FirstStart(p, s, from) ==
    MinOrZero({i \in from..(Len(s) + 1) : MatchesAt(p, 1, s, i)})

\* a replacement template: a sequence of literal strings and group
\* references; Grp(k) is the text matched by atom k of the pattern
Txt(w) == [g |-> 0, w |-> w]
Grp(k) == [g |-> k, w |-> <<>>]

RECURSIVE Expand(_, _, _, _, _)
Expand(t, n, s, start, ends) ==
    IF n > Len(t) THEN <<>>
    ELSE LET piece ==
               IF t[n].g = 0 THEN t[n].w
               ELSE SubSeq(s, IF t[n].g = 1 THEN start ELSE ends[t[n].g - 1],
                              ends[t[n].g] - 1)
         IN  piece \o Expand(t, n + 1, s, start, ends)

\* re.sub(p, t, s) for a pattern that matches no empty string.  The matches
\* are found in m, a text of the length of s (s itself, or s in lower case for
\* a case-insensitive pattern written in lower case), and replaced in s.
RECURSIVE SubFrom(_, _, _, _, _)
\* the match that starts at i and has the ends given is replaced
SubMatch(p, t, s, m, from, i, ends) ==
    SubSeq(s, from, i - 1) \o Expand(t, 1, s, i, ends)
        \o SubFrom(p, t, s, m, ends[Len(ends)])

\* i is the start of the leftmost match at or after from, or 0
SubAt(p, t, s, m, from, i) ==
    IF i = 0 THEN SubSeq(s, from, Len(s))
    ELSE SubMatch(p, t, s, m, from, i, GreedyEnds(p, 1, m, i))

SubFrom(p, t, s, m, from) == SubAt(p, t, s, m, from, FirstStart(p, m, from))

Sub(p, t, s) == SubFrom(p, t, s, s, 1)

\* re.sub(p, t, s, flags=re.IGNORECASE), p written in lower case
SubIgnoreCase(p, t, s) == SubFrom(p, t, s, ToLower(s), 1)

\* len(re.findall(p, s)) for a pattern that matches no empty string
RECURSIVE CountFrom(_, _, _)
CountAt(p, s, i) ==
    IF i = 0 THEN 0 ELSE 1 + CountFrom(p, s, GreedyEnds(p, 1, s, i)[Len(p)])

CountFrom(p, s, from) == CountAt(p, s, FirstStart(p, s, from))

FindallCount(p, s) == CountFrom(p, s, 1)

----------------------------------------------------------------------------
(* FastMathSolver._clean_latex *)

\* the unicode_to_latex table of _clean_latex, in its order
CleanUnicodeTable ==
    << <<"U_int",     <<BS,"i","n","t">> >>,
       <<"U_part",    <<BS,"p","a","r","t","i","a","l">> >>,
       <<"U_sum",     <<BS,"s","u","m">> >>,
       <<"U_prod",    <<BS,"p","r","o","d">> >>,
       <<"U_sqrt",    <<"s","q","r","t">> >>,
       <<"U_inf",     <<BS,"i","n","f","t","y">> >>,
       <<"U_ne",      <<"!","=">> >>,
       <<"U_le",      <<"<","=">> >>,
       <<"U_ge",      <<">","=">> >>,
       <<"U_pm",      <<"+","-">> >>,
       <<"U_times",   <<"*">> >>,
       <<"U_div",     <<"/">> >>,
       <<"U_approx",  <<"=">> >>,
       <<"U_pi",      <<"p","i">> >>,
       <<"U_theta",   <<"t","h","e","t","a">> >>,
       <<"U_phi",     <<"p","h","i">> >>,
       <<"U_alpha",   <<"a","l","p","h","a">> >>,
       <<"U_beta",    <<"b","e","t","a">> >>,
       <<"U_gamma",   <<"g","a","m","m","a">> >>,
       <<"U_delta",   <<"d","e","l","t","a">> >>,
       <<"U_epsilon", <<"e","p","s","i","l","o","n">> >>,
       <<"U_zeta",    <<"z","e","t","a">> >>,
       <<"U_eta",     <<"e","t","a">> >>,
       <<"U_iota",    <<"i","o","t","a">> >>,
       <<"U_kappa",   <<"k","a","p","p","a">> >>,
       <<"U_lambda",  <<"l","a","m","b","d","a","_","v","a","r">> >>,
       <<"U_mu",      <<"m","u","_","v","a","r">> >>,
       <<"U_nu",      <<"n","u">> >>,
       <<"U_xi",      <<"x","i">> >>,
       <<"U_omicron", <<"o","m","i","c","r","o","n">> >>,
       <<"U_rho",     <<"r","h","o">> >>,
       <<"U_sigma",   <<"s","i","g","m","a">> >>,
       <<"U_tau",     <<"t","a","u">> >>,
       <<"U_upsilon", <<"u","p","s","i","l","o","n">> >>,
       <<"U_chi",     <<"c","h","i">> >>,
       <<"U_psi",     <<"p","s","i">> >>,
       <<"U_omega",   <<"o","m","e","g","a">> >>,
       <<"U_Gamma",   <<"G","a","m","m","a">> >>,
       <<"U_Delta",   <<"D","e","l","t","a">> >>,
       <<"U_Theta",   <<"T","h","e","t","a">> >>,
       <<"U_Lambda",  <<"L","a","m","b","d","a">> >>,
       <<"U_Xi",      <<"X","i">> >>,
       <<"U_Pi",      <<"P","i">> >>,
       <<"U_Sigma",   <<"S","i","g","m","a">> >>,
       <<"U_Phi",     <<"P","h","i">> >>,
       <<"U_Psi",     <<"P","s","i">> >>,
       <<"U_Omega",   <<"O","m","e","g","a">> >> >>

\* for unicode_char, latex_equiv in table.items(): text = text.replace(...)
\* Every key is one non-ASCII character and every replacement is ASCII, so
\* the replacements of the loop do not interact: each character of the text
\* is replaced by its own entry.
RECURSIVE ApplyTableFrom(_, _, _)
ApplyTableFrom(s, table, from) ==
    LET keys == {table[n][1] : n \in 1..Len(table)}
        hits == {i \in from..Len(s) : s[i] \in keys}
    IN  IF hits = {} THEN SubSeq(s, from, Len(s))
        ELSE LET i == Min(hits)
                 n == Min({m \in 1..Len(table) : table[m][1] = s[i]})
             IN  SubSeq(s, from, i - 1) \o table[n][2]
                   \o ApplyTableFrom(s, table, i + 1)

ApplyTable(s, table) == ApplyTableFrom(s, table, 1)

\* for func in names: text = text.replace('\\' + func, func)
RECURSIVE StripMacros(_, _, _)
StripMacros(s, names, n) ==
    IF n > Len(names) THEN s
    ELSE StripMacros(Replace(s, <<BS>> \o names[n], names[n]), names, n + 1)

TrigFuncs ==
    << <<"s","i","n">>, <<"c","o","s">>, <<"t","a","n">>, <<"s","e","c">>,
       <<"c","s","c">>, <<"c","o","t">>, <<"a","r","c","s","i","n">>,
       <<"a","r","c","c","o","s">>, <<"a","r","c","t","a","n">> >>

\* (sin|cos|tan|sec|csc|cot)
TrigAlt ==
    Alt(<< <<"s","i","n">>, <<"c","o","s">>, <<"t","a","n">>, <<"s","e","c">>,
           <<"c","s","c">>, <<"c","o","t">> >>)

\* r'\|([^|]+)\|' -> r'Abs(\1)'
AbsPattern == <<Lit(<<"|">>), NCls({"|"}, "plus"), Lit(<<"|">>)>>
AbsTemplate == <<Txt(<<"A","b","s","(">>), Grp(2), Txt(<<")">>)>>

\* r'\blambda\b' -> 'lambda_var', r'\bmu\b' -> 'mu_var'
LambdaPattern == <<WB, Lit(<<"l","a","m","b","d","a">>), WB>>
LambdaTemplate == <<Txt(<<"l","a","m","b","d","a","_","v","a","r">>)>>
MuPattern == <<WB, Lit(<<"m","u">>), WB>>
MuTemplate == <<Txt(<<"m","u","_","v","a","r">>)>>

\* r'([a-zA-Z_]+)_{([^}]+)}' -> r'\1_\2'
SubscriptPattern ==
    <<Cls(Letters \cup {"_"}, "plus"), Lit(<<"_","{">>), NCls({"}"}, "plus"), Lit(<<"}">>)>>
SubscriptTemplate == <<Grp(1), Txt(<<"_">>), Grp(3)>>

\* r'\^{([^}]+)}' -> r'**(\1)'
ExponentPattern == <<Lit(<<"^","{">>), NCls({"}"}, "plus"), Lit(<<"}">>)>>
ExponentTemplate == <<Txt(<<"*","*","(">>), Grp(2), Txt(<<")">>)>>

\* r'\\frac\{([^}]+)\}\{([^}]+)\}' -> r'((\1)/(\2))'
FracPattern ==
    <<Lit(<<BS,"f","r","a","c","{">>), NCls({"}"}, "plus"), Lit(<<"}","{">>),
      NCls({"}"}, "plus"), Lit(<<"}">>)>>
FracTemplate == <<Txt(<<"(","(">>), Grp(2), Txt(<<")","/","(">>), Grp(4), Txt(<<")",")">>)>>

\* r'\\sqrt\{([^}]+)\}' -> r'sqrt(\1)'
SqrtPattern == <<Lit(<<BS,"s","q","r","t","{">>), NCls({"}"}, "plus"), Lit(<<"}">>)>>
SqrtTemplate == <<Txt(<<"s","q","r","t","(">>), Grp(2), Txt(<<")">>)>>

\* r'sqrt\(([^)]+)\)' -> r'sqrt(\1)'
SqrtParenPattern == <<Lit(<<"s","q","r","t","(">>), NCls({")"}, "plus"), Lit(<<")">>)>>
SqrtParenTemplate == <<Txt(<<"s","q","r","t","(">>), Grp(2), Txt(<<")">>)>>

\* r'(\d)([a-zA-Z])' -> r'\1*\2'
DigitLetterPattern == <<Cls(Digits, "one"), Cls(Letters, "one")>>
DigitLetterTemplate == <<Grp(1), Txt(<<"*">>), Grp(2)>>

\* r'\)\s*\(' -> r')*('
ParenParenPattern == <<Lit(<<")">>), Cls(Whitespace, "star"), Lit(<<"(">>)>>
ParenParenTemplate == <<Txt(<<")","*","(">>)>>

\* r'(sin|cos|tan|sec|csc|cot)\*\*\((\d+)\)\(' -> r'\1(\2**'
TrigPowParenPattern ==
    <<TrigAlt, Lit(<<"*","*","(">>), Cls(Digits, "plus"), Lit(<<")","(">>)>>
TrigPowParenTemplate == <<Grp(1), Txt(<<"(">>), Grp(3), Txt(<<"*","*">>)>>

\* r'(sin|cos|tan|sec|csc|cot)\*\*(\d+)\(' -> r'\1('
TrigPowPattern == <<TrigAlt, Lit(<<"*","*">>), Cls(Digits, "plus"), Lit(<<"(">>)>>
TrigPowTemplate == <<Grp(1), Txt(<<"(">>)>>

\* the k-th rewriting of _clean_latex, in the order of the function body
CleanStage(k, text) ==
    CASE k = 1  -> Sub(AbsPattern, AbsTemplate, text)
      [] k = 2  -> ApplyTable(text, CleanUnicodeTable)
      [] k = 3  -> Replace(text, <<BS,"i","n","f","t","y">>, <<"o","o">>)
      [] k = 4  -> Sub(MuPattern, MuTemplate, Sub(LambdaPattern, LambdaTemplate, text))
      [] k = 5  -> Sub(SubscriptPattern, SubscriptTemplate, text)
      [] k = 6  -> Replace(Sub(ExponentPattern, ExponentTemplate, text), <<"^">>, <<"*","*">>)
      [] k = 7  -> Sub(FracPattern, FracTemplate, text)
      [] k = 8  -> Sub(SqrtParenPattern, SqrtParenTemplate, Sub(SqrtPattern, SqrtTemplate, text))
      [] k = 9  -> StripMacros(text, TrigFuncs, 1)
      [] k = 10 -> Replace(Replace(text, <<BS,"l","n">>, <<"l","o","g">>),
                           <<BS,"l","o","g">>, <<"l","o","g">>)
      [] k = 11 -> Replace(text, <<BS,"e","x","p">>, <<"e","x","p">>)
      [] k = 12 -> Replace(Replace(text, <<BS,"c","d","o","t">>, <<"*">>),
                           <<BS,"t","i","m","e","s">>, <<"*">>)
      [] k = 13 -> Replace(Replace(text, <<BS,"l","e","f","t">>, <<>>),
                           <<BS,"r","i","g","h","t">>, <<>>)
      [] k = 14 -> Sub(DigitLetterPattern, DigitLetterTemplate, text)
      [] k = 15 -> Sub(ParenParenPattern, ParenParenTemplate, text)
      [] k = 16 -> Sub(TrigPowPattern, TrigPowTemplate,
                       Sub(TrigPowParenPattern, TrigPowParenTemplate, text))
      [] k = 17 -> JoinSplit(text)

\* the rewritings from the k-th on, each applied to the value of the one
\* before (text is computed before the next rewriting starts)
RECURSIVE CleanFrom(_, _)
CleanFrom(k, text) ==
    IF Len(text) >= 0 /\ k <= 17 THEN CleanFrom(k + 1, CleanStage(k, text)) ELSE text

_clean_latex(text) == CleanFrom(1, text)

----------------------------------------------------------------------------
(* FastMathSolver._validate_equation *)

\* dict.get(key, default); a dict is a record whose fields are its keys
Get(d, key, default) == IF key \in DOMAIN d THEN d[key] ELSE default

\* r'd[a-z]'
DifferentialPattern == <<Lit(<<"d">>), Cls(LowerLetters, "one")>>

\* r'\\int_\{[^}]+\}\^\{[^}]+\}'
DefiniteLatexPattern ==
    <<Lit(<<BS,"i","n","t","_","{">>), NCls({"}"}, "plus"), Lit(<<"}","^","{">>),
      NCls({"}"}, "plus"), Lit(<<"}">>)>>

\* the same pattern with the integral sign instead of \int
DefiniteUnicodePattern ==
    <<Lit(<<"U_int","_","{">>), NCls({"}"}, "plus"), Lit(<<"}","^","{">>),
      NCls({"}"}, "plus"), Lit(<<"}">>)>>

\* r'd/d([a-z])'
DdVarPattern == <<Lit(<<"d","/","d">>), Cls(LowerLetters, "one")>>

\* r'\\frac\{d\}\{d[a-z]\}'
FracDdPattern ==
    <<Lit(<<BS,"f","r","a","c","{","d","}","{","d">>), Cls(LowerLetters, "one"), Lit(<<"}">>)>>

\* r'\\lim_\{[a-z]\s*\\to\s*[^}]+\}'
LimLatexPattern ==
    <<Lit(<<BS,"l","i","m","_","{">>), Cls(LowerLetters, "one"), Cls(Whitespace, "star"),
      Lit(<<BS,"t","o">>), Cls(Whitespace, "star"), NCls({"}"}, "plus"), Lit(<<"}">>)>>

\* r'lim\s+[a-z]\s*(arrow)\s*\S+'
LimArrowPattern ==
    <<Lit(<<"l","i","m">>), Cls(Whitespace, "plus"), Cls(LowerLetters, "one"),
      Cls(Whitespace, "star"), Lit(<<"U_arrow">>), Cls(Whitespace, "star"),
      NCls(Whitespace, "plus")>>

\* r'[+\-*/^]\s*[=]' and r'[=]\s*[+*/^]'
OperatorThenEquals ==
    <<Cls({"+","-","*","/","^"}, "one"), Cls(Whitespace, "star"), Lit(<<"=">>)>>
EqualsThenOperator ==
    <<Lit(<<"=">>), Cls(Whitespace, "star"), Cls({"+","*","/","^"}, "one")>>

\* r'\\begin\{([^}]+)\}' and r'\\end\{([^}]+)\}'
BeginPattern == <<Lit(<<BS,"b","e","g","i","n","{">>), NCls({"}"}, "plus"), Lit(<<"}">>)>>
EndPattern == <<Lit(<<BS,"e","n","d","{">>), NCls({"}"}, "plus"), Lit(<<"}">>)>>

\* r'[+\-*/^]{2,}'
OperatorRunPattern == <<Cls({"+","-","*","/","^"}, "two")>>

\* r'\\[a-zA-Z]+'
LatexCommandPattern == <<Lit(<<BS>>), Cls(Letters, "plus")>>

\* the character class of the last check
AllowedChars ==
    Letters \cup Digits \cup Whitespace
      \cup {"+","-","*","/","^","(",")","{","}","[","]","_",".",",","=","<",">","!","|"}
      \cup {"U_sqrt","U_int","U_inf","U_times","U_div","U_ne","U_le","U_ge"}
      \cup (GreekLower \cup GreekUpper)
      \cup SuperSubscripts
      \cup {"U_arrow"}

\* the outcomes of self._parse(...) and parsed.free_symbols on the cleaned
\* text: the parser raises, or finds no symbol, or finds the symbol named
ParseOutcomes == {"raise", "none", "x"}

\* the same without the except clause: what the parser raises escapes
TryFreeSymbols_NoExcept(parse) ==
    [raised |-> parse = "raise", vars |-> IF parse \in {"raise", "none"} THEN <<>> ELSE <<parse>>]

\* try: parsed = self._parse(...); vars_found = list(parsed.free_symbols)
\* except: pass
\* Whatever the parser raises is swallowed, and the generic message follows.
TryFreeSymbols(parse) ==
    [raised |-> FALSE, vars |-> IF parse \in {"raise", "none"} THEN <<>> ELSE <<parse>>]

\* the integral checks (lines 70-110): a failure record, or <<>> for none
IntegralCheck(equation, operation_type, parse) ==
    IF \/ operation_type = "integral"
       \/ Contains(equation, <<BS,"i","n","t">>)
       \/ Contains(equation, <<"U_int">>)
       \/ Contains(ToLower(equation), <<"i","n","t","e","g","r","a","t","e">>)
    THEN IF ~Search(DifferentialPattern, equation)
         THEN LET cleaned == _clean_latex(equation)
                  attempt == TryFreeSymbols(parse)
              IN  IF attempt.raised THEN [raised |-> "parse"]
                  ELSE IF attempt.vars /= <<>>
                  THEN [valid |-> FALSE,
                        error |-> "Missing differential in integral",
                        suggestion |-> <<"Did you mean to include d", attempt.vars[1]>>,
                        hint |-> <<"Example: integral of", cleaned, "d", attempt.vars[1]>>,
                        user_message |-> <<"Your integral is missing a differential! Try adding d",
                                           attempt.vars[1], "at the end.">>]
                  ELSE [valid |-> FALSE,
                        error |-> "Missing differential in integral",
                        suggestion |-> "Add dx, dy, dt, or another differential at the end",
                        hint |-> "Example: integral of x^2 dx (note the dx at the end)",
                        user_message |-> "Your integral is missing a differential! Please add dx (or dy, dt, etc.) at the end."]
         ELSE IF /\ \/ Contains(equation, <<BS,"i","n","t","_">>)
                    \/ Contains(equation, <<"U_int","_">>)
                 /\ ~Search(DefiniteLatexPattern, equation)
                 /\ ~Search(DefiniteUnicodePattern, equation)
         THEN [valid |-> FALSE,
               error |-> "Incomplete definite integral",
               suggestion |-> "Definite integrals need both lower and upper limits",
               hint |-> "Example: \\int_{0}^{2} x dx",
               user_message |-> "Your definite integral is missing limits! Include both lower and upper bounds."]
         ELSE <<>>
    ELSE <<>>

\* the derivative checks (lines 112-135)
DerivativeCheck(equation, operation_type) ==
    IF \/ operation_type = "derivative"
       \/ Contains(equation, <<"d","/","d">>)
       \/ Contains(equation, <<BS,"f","r","a","c","{","d">>)
       \/ Contains(ToLower(equation), <<"d","e","r","i","v","a","t","i","v","e">>)
    THEN IF Contains(equation, <<"d","/","d">>) /\ ~Search(DdVarPattern, equation)
         THEN [valid |-> FALSE,
               error |-> "Missing variable in derivative notation",
               suggestion |-> "Specify which variable to differentiate with respect to",
               hint |-> "Example: d/dx(x^2) or d/dt(sin(t))",
               user_message |-> "Your derivative notation is incomplete! Specify the variable like d/dx or d/dt."]
         ELSE IF /\ Contains(equation, <<BS,"f","r","a","c","{","d">>)
                 /\ ~Search(FracDdPattern, equation)
         THEN [valid |-> FALSE,
               error |-> "Incomplete derivative notation",
               suggestion |-> "Use proper derivative notation: \\frac{d}{dx}",
               hint |-> "Example: \\frac{d}{dx}(x^2)",
               user_message |-> "Your derivative notation is incomplete! Use \\frac{d}{dx} or \\frac{d}{dt}."]
         ELSE <<>>
    ELSE <<>>

\* the limit check (lines 137-151)
LimitCheck(equation, operation_type) ==
    IF \/ operation_type = "limit"
       \/ Contains(equation, <<BS,"l","i","m">>)
       \/ Contains(ToLower(equation), <<"l","i","m">>)
       \/ Contains(ToLower(equation), <<"l","i","m","i","t">>)
    THEN IF ~ \/ Search(LimLatexPattern, equation)
              \/ Search(LimArrowPattern, equation)
              \/ Contains(ToLower(equation), <<"l","i","m","i","t","(">>)
         THEN [valid |-> FALSE,
               error |-> "Missing limit point",
               suggestion |-> "Specify what value the variable approaches",
               hint |-> "Example: \\lim_{x\\to 0} or lim x->0",
               user_message |-> "Your limit is missing a point! Specify where the variable approaches."]
         ELSE <<>>
    ELSE <<>>

\* the equation checks (lines 153-179)
EquationCheck(equation, operation_type) ==
    IF operation_type = "equation"
    THEN IF CountChar(equation, "(") /= CountChar(equation, ")")
         THEN [valid |-> FALSE,
               error |-> "Unbalanced parentheses",
               suggestion |-> "Make sure all opening parentheses have matching closing ones",
               user_message |-> <<"Unbalanced parentheses! You have", CountChar(equation, "("),
                                  "opening but", CountChar(equation, ")"), "closing.">>]
         ELSE IF CountChar(equation, "{") /= CountChar(equation, "}")
         THEN [valid |-> FALSE,
               error |-> "Unbalanced braces",
               suggestion |-> "Make sure all opening braces have matching closing ones",
               user_message |-> <<"Unbalanced braces! You have", CountChar(equation, "{"),
                                  "opening but", CountChar(equation, "}"), "closing.">>]
         ELSE IF Search(OperatorThenEquals, equation) \/ Search(EqualsThenOperator, equation)
         THEN [valid |-> FALSE,
               error |-> "Missing operand",
               suggestion |-> "Check that all operators (+, -, *, /, ^) have numbers or variables on both sides",
               user_message |-> "Missing operand! Make sure operators like +, -, *, / have values on both sides."]
         ELSE <<>>
    ELSE <<>>

\* the matrix check (lines 181-194)
MatrixCheck(equation, operation_type) ==
    IF /\ \/ operation_type = "matrix"
          \/ Contains(ToLower(equation), <<"m","a","t","r","i","x">>)
          \/ Contains(equation, <<BS,"b","e","g","i","n","{">>)
       /\ Contains(equation, <<BS,"b","e","g","i","n","{">>)
       /\ FindallCount(BeginPattern, equation) /= FindallCount(EndPattern, equation)
    THEN [valid |-> FALSE,
          error |-> "Unmatched matrix environment",
          suggestion |-> "Every \\begin{matrix} needs a matching \\end{matrix}",
          user_message |-> "Unmatched matrix environment! Make sure every \\begin{matrix} has an \\end{matrix}."]
    ELSE <<>>

\* what is left of the equation once the LaTeX commands and the allowed
\* characters are removed, stripped
UnexpectedChars(equation) ==
    LET NotAllowed(c) == c \notin AllowedChars
    IN  Strip(SelectSeq(Sub(LatexCommandPattern, <<>>, equation), NotAllowed))

\* the general syntax checks (lines 196-231)
GeneralCheck(equation) ==
    IF Strip(equation) = <<>>
    THEN [valid |-> FALSE,
          error |-> "Empty equation",
          user_message |-> "Please enter an equation or expression to solve."]
    ELSE IF Search(OperatorRunPattern,
                   Replace(Replace(equation, <<"*","*">>, <<>>), <<"-","-">>, <<>>))
    THEN [valid |-> FALSE,
          error |-> "Multiple consecutive operators",
          suggestion |-> "Remove duplicate operators like ++, **, etc.",
          user_message |-> "Multiple consecutive operators detected! Check for typos like ++ or **."]
    ELSE IF UnexpectedChars(equation) /= <<>>
    THEN LET bad == UnexpectedChars(equation)
             unexpected == {bad[i] : i \in 1..Len(bad)}
         IN  [valid |-> FALSE,
              error |-> "Unexpected characters",
              suggestion |-> <<"Found unexpected characters:", unexpected>>,
              user_message |-> <<"Unexpected characters found:", unexpected,
                                 "Please use standard math notation.">>]
    ELSE [valid |-> TRUE]

\* the checks in the order of the function body; the first failure is returned
_validate_equation(equation, operation_type, parse) ==
    LET integral   == IntegralCheck(equation, operation_type, parse)
        derivative == DerivativeCheck(equation, operation_type)
        limit      == LimitCheck(equation, operation_type)
        eqn        == EquationCheck(equation, operation_type)
        matrix     == MatrixCheck(equation, operation_type)
    IN  IF integral /= <<>> THEN integral
        ELSE IF derivative /= <<>> THEN derivative
        ELSE IF limit /= <<>> THEN limit
        ELSE IF eqn /= <<>> THEN eqn
        ELSE IF matrix /= <<>> THEN matrix
        ELSE GeneralCheck(equation)

----------------------------------------------------------------------------
(* EquationClassifier *)

None == "None"

\* self.patterns: for every category, in the order of declaration, its
\* patterns; a pattern is the sequence of its alternatives (a|b).  The search
\* is case-insensitive on lowercased text, so the patterns are in lower case.
Patterns ==
    <<
       [name |-> "calculus_derivative", patterns |->
        <<
          \* d[xy]/d[xy]
          << <<Lit(<<"d">>), Cls({"x","y"}, "one"), Lit(<<"/","d">>), Cls({"x","y"}, "one")>> >>,
          \* \\frac\{d
          << <<Lit(<<"\\","f","r","a","c","{","d">>)>> >>,
          \* derivative
          << <<Lit(<<"d","e","r","i","v","a","t","i","v","e">>)>> >>,
          \* f'
          << <<Lit(<<"f","'">>)>> >>,
          \* \\partial
          << <<Lit(<<"\\","p","a","r","t","i","a","l">>)>> >>,
          \* \bd/d[a-z]\b
          << <<WB, Lit(<<"d","/","d">>), Cls(LowerLetters, "one"), WB>> >>
        >>],
       [name |-> "calculus_integral", patterns |->
        <<
          \* \\int
          << <<Lit(<<"\\","i","n","t">>)>> >>,
          \* integral
          << <<Lit(<<"i","n","t","e","g","r","a","l">>)>> >>,
          \* (integral sign)
          << <<Lit(<<"U_int">>)>> >>,
          \* area under
          << <<Lit(<<"a","r","e","a"," ","u","n","d","e","r">>)>> >>,
          \* \bintegrate\b
          << <<WB, Lit(<<"i","n","t","e","g","r","a","t","e">>), WB>> >>
        >>],
       [name |-> "calculus_limit", patterns |->
        <<
          \* \\lim
          << <<Lit(<<"\\","l","i","m">>)>> >>,
          \* limit
          << <<Lit(<<"l","i","m","i","t">>)>> >>,
          \* approaches
          << <<Lit(<<"a","p","p","r","o","a","c","h","e","s">>)>> >>,
          \* as.*(arrow)
          << <<Lit(<<"a","s">>), NCls({"\n"}, "star"), Lit(<<"U_arrow">>)>> >>,
          \* tends to
          << <<Lit(<<"t","e","n","d","s"," ","t","o">>)>> >>
        >>],
       [name |-> "physics_kinematics", patterns |->
        <<
          \* \bv\s*=\s*u\s*\+\s*a\s*\*?\s*t\b
          << <<WB, Lit(<<"v">>), Cls(Whitespace, "star"), Lit(<<"=">>), Cls(Whitespace, "star"), Lit(<<"u">>), Cls(Whitespace, "star"), Lit(<<"+">>), Cls(Whitespace, "star"), Lit(<<"a">>), Cls(Whitespace, "star"), Cls({"*"}, "opt"), Cls(Whitespace, "star"), Lit(<<"t">>), WB>> >>,
          \* \bs\s*=\s*u\s*\*?\s*t\s*\+
          << <<WB, Lit(<<"s">>), Cls(Whitespace, "star"), Lit(<<"=">>), Cls(Whitespace, "star"), Lit(<<"u">>), Cls(Whitespace, "star"), Cls({"*"}, "opt"), Cls(Whitespace, "star"), Lit(<<"t">>), Cls(Whitespace, "star"), Lit(<<"+">>)>> >>,
          \* \bv\s*\*\*?\s*2\s*=\s*u\s*\*\*?\s*2
          << <<WB, Lit(<<"v">>), Cls(Whitespace, "star"), Lit(<<"*">>), Cls({"*"}, "opt"), Cls(Whitespace, "star"), Lit(<<"2">>), Cls(Whitespace, "star"), Lit(<<"=">>), Cls(Whitespace, "star"), Lit(<<"u">>), Cls(Whitespace, "star"), Lit(<<"*">>), Cls({"*"}, "opt"), Cls(Whitespace, "star"), Lit(<<"2">>)>> >>,
          \* velocity|acceleration|displacement
          << <<Lit(<<"v","e","l","o","c","i","t","y">>)>>, <<Lit(<<"a","c","c","e","l","e","r","a","t","i","o","n">>)>>, <<Lit(<<"d","i","s","p","l","a","c","e","m","e","n","t">>)>> >>
        >>],
       [name |-> "physics_force", patterns |->
        <<
          \* \bF\s*=\s*m\s*\*?\s*a\b
          << <<WB, Lit(<<"f">>), Cls(Whitespace, "star"), Lit(<<"=">>), Cls(Whitespace, "star"), Lit(<<"m">>), Cls(Whitespace, "star"), Cls({"*"}, "opt"), Cls(Whitespace, "star"), Lit(<<"a">>), WB>> >>,
          \* force|newton|mass.*acceleration
          << <<Lit(<<"f","o","r","c","e">>)>>, <<Lit(<<"n","e","w","t","o","n">>)>>, <<Lit(<<"m","a","s","s">>), NCls({"\n"}, "star"), Lit(<<"a","c","c","e","l","e","r","a","t","i","o","n">>)>> >>
        >>],
       [name |-> "physics_energy", patterns |->
        <<
          \* \bE\s*=\s*m\s*\*?\s*c\s*\*\*?\s*2
          << <<WB, Lit(<<"e">>), Cls(Whitespace, "star"), Lit(<<"=">>), Cls(Whitespace, "star"), Lit(<<"m">>), Cls(Whitespace, "star"), Cls({"*"}, "opt"), Cls(Whitespace, "star"), Lit(<<"c">>), Cls(Whitespace, "star"), Lit(<<"*">>), Cls({"*"}, "opt"), Cls(Whitespace, "star"), Lit(<<"2">>)>> >>,
          \* KE\s*=|PE\s*=
          << <<Lit(<<"k","e">>), Cls(Whitespace, "star"), Lit(<<"=">>)>>, <<Lit(<<"p","e">>), Cls(Whitespace, "star"), Lit(<<"=">>)>> >>,
          \* kinetic|potential.*energy
          << <<Lit(<<"k","i","n","e","t","i","c">>)>>, <<Lit(<<"p","o","t","e","n","t","i","a","l">>), NCls({"\n"}, "star"), Lit(<<"e","n","e","r","g","y">>)>> >>
        >>],
       [name |-> "physics_electricity", patterns |->
        <<
          \* \bV\s*=\s*I\s*\*?\s*R\b
          << <<WB, Lit(<<"v">>), Cls(Whitespace, "star"), Lit(<<"=">>), Cls(Whitespace, "star"), Lit(<<"i">>), Cls(Whitespace, "star"), Cls({"*"}, "opt"), Cls(Whitespace, "star"), Lit(<<"r">>), WB>> >>,
          \* \bP\s*=\s*V\s*\*?\s*I\b
          << <<WB, Lit(<<"p">>), Cls(Whitespace, "star"), Lit(<<"=">>), Cls(Whitespace, "star"), Lit(<<"v">>), Cls(Whitespace, "star"), Cls({"*"}, "opt"), Cls(Whitespace, "star"), Lit(<<"i">>), WB>> >>,
          \* voltage|current|resistance|ohm
          << <<Lit(<<"v","o","l","t","a","g","e">>)>>, <<Lit(<<"c","u","r","r","e","n","t">>)>>, <<Lit(<<"r","e","s","i","s","t","a","n","c","e">>)>>, <<Lit(<<"o","h","m">>)>> >>
        >>],
       [name |-> "statistics", patterns |->
        <<
          \* mean|average|median|mode
          << <<Lit(<<"m","e","a","n">>)>>, <<Lit(<<"a","v","e","r","a","g","e">>)>>, <<Lit(<<"m","e","d","i","a","n">>)>>, <<Lit(<<"m","o","d","e">>)>> >>,
          \* variance|std|standard deviation
          << <<Lit(<<"v","a","r","i","a","n","c","e">>)>>, <<Lit(<<"s","t","d">>)>>, <<Lit(<<"s","t","a","n","d","a","r","d"," ","d","e","v","i","a","t","i","o","n">>)>> >>,
          \* probability|P\(
          << <<Lit(<<"p","r","o","b","a","b","i","l","i","t","y">>)>>, <<Lit(<<"p","(">>)>> >>,
          \* normal distribution|gaussian
          << <<Lit(<<"n","o","r","m","a","l"," ","d","i","s","t","r","i","b","u","t","i","o","n">>)>>, <<Lit(<<"g","a","u","s","s","i","a","n">>)>> >>
        >>],
       [name |-> "linear_algebra", patterns |->
        <<
          \* matrix|determinant|eigenvalue
          << <<Lit(<<"m","a","t","r","i","x">>)>>, <<Lit(<<"d","e","t","e","r","m","i","n","a","n","t">>)>>, <<Lit(<<"e","i","g","e","n","v","a","l","u","e">>)>> >>,
          \* \\begin\{matrix\}
          << <<Lit(<<"\\","b","e","g","i","n","{","m","a","t","r","i","x","}">>)>> >>,
          \* dot product|cross product
          << <<Lit(<<"d","o","t"," ","p","r","o","d","u","c","t">>)>>, <<Lit(<<"c","r","o","s","s"," ","p","r","o","d","u","c","t">>)>> >>,
          \* vector
          << <<Lit(<<"v","e","c","t","o","r">>)>> >>
        >>],
       [name |-> "trigonometry", patterns |->
        <<
          \* \bsin\b|\bcos\b|\btan\b|\bcot\b|\bsec\b|\bcsc\b
          << <<WB, Lit(<<"s","i","n">>), WB>>, <<WB, Lit(<<"c","o","s">>), WB>>, <<WB, Lit(<<"t","a","n">>), WB>>, <<WB, Lit(<<"c","o","t">>), WB>>, <<WB, Lit(<<"s","e","c">>), WB>>, <<WB, Lit(<<"c","s","c">>), WB>> >>,
          \* \\sin|\\cos|\\tan
          << <<Lit(<<"\\","s","i","n">>)>>, <<Lit(<<"\\","c","o","s">>)>>, <<Lit(<<"\\","t","a","n">>)>> >>,
          \* triangle|angle
          << <<Lit(<<"t","r","i","a","n","g","l","e">>)>>, <<Lit(<<"a","n","g","l","e">>)>> >>
        >>],
       [name |-> "algebra", patterns |->
        <<
          \* solve|find|calculate
          << <<Lit(<<"s","o","l","v","e">>)>>, <<Lit(<<"f","i","n","d">>)>>, <<Lit(<<"c","a","l","c","u","l","a","t","e">>)>> >>,
          \* =.*[a-z]
          << <<Lit(<<"=">>), NCls({"\n"}, "star"), Cls(LowerLetters, "one")>> >>
        >>]
    >>

\* self.operation_keywords, in the order of declaration
OperationKeywords ==
    <<
       [name |-> "solve", keywords |->
          <<<<"s","o","l","v","e">>, <<"f","i","n","d">>, <<"w","h","a","t"," ","i","s">>, <<"c","a","l","c","u","l","a","t","e">>, <<"d","e","t","e","r","m","i","n","e">>, <<"=">>>>],
       [name |-> "simplify", keywords |->
          <<<<"s","i","m","p","l","i","f","y">>, <<"r","e","d","u","c","e">>, <<"e","x","p","a","n","d">>>>],
       [name |-> "factor", keywords |->
          <<<<"f","a","c","t","o","r">>, <<"f","a","c","t","o","r","i","z","e">>, <<"f","a","c","t","o","r","i","s","e">>>>],
       [name |-> "differentiate", keywords |->
          <<<<"d","e","r","i","v","a","t","i","v","e">>, <<"d","i","f","f","e","r","e","n","t","i","a","t","e">>, <<"f","'">>, <<"d","/","d">>, <<"r","a","t","e"," ","o","f"," ","c","h","a","n","g","e">>>>],
       [name |-> "integrate", keywords |->
          <<<<"i","n","t","e","g","r","a","t","e">>, <<"i","n","t","e","g","r","a","l">>, <<"a","n","t","i","d","e","r","i","v","a","t","i","v","e">>, <<"a","r","e","a">>>>],
       [name |-> "limit", keywords |->
          <<<<"l","i","m","i","t">>, <<"a","p","p","r","o","a","c","h","e","s">>, <<"t","e","n","d","s"," ","t","o">>>>],
       [name |-> "plot", keywords |->
          <<<<"p","l","o","t">>, <<"g","r","a","p","h">>, <<"d","r","a","w">>, <<"s","k","e","t","c","h">>>>]
    >>


\* re.search(pattern, text_lower, re.IGNORECASE)
SearchAlts(pattern, s) == \E n \in 1..Len(pattern) : Search(pattern[n], s)

\* the score of a category: the number of its patterns that match
Score(category, text_lower) ==
    Cardinality({k \in 1..Len(category.patterns) :
                    SearchAlts(category.patterns[k], text_lower)})

\* the same with the later entry winning a tie
RECURSIVE MaxKey_LastWins(_, _, _)
MaxKey_LastWins(scores, n, best) ==
    IF n > Len(scores) THEN best
    ELSE MaxKey_LastWins(scores, n + 1,
                         IF scores[n].score >= best.score THEN scores[n] ELSE best)

\* max(scores, key=scores.get) on the entries from the n-th on: the entries
\* are visited in the order of insertion and an entry replaces the best one
\* only when its score is greater
RECURSIVE MaxKey(_, _, _)
MaxKey(scores, n, best) ==
    IF n > Len(scores) THEN best
    ELSE MaxKey(scores, n + 1, IF scores[n].score > best.score THEN scores[n] ELSE best)

_detect_problem_type(text, text_lower) ==
    LET all == [n \in 1..Len(Patterns) |->
                  [name |-> Patterns[n].name, score |-> Score(Patterns[n], text_lower)]]
        Positive(e) == e.score > 0
        scores == SelectSeq(all, Positive)
    IN  IF scores /= <<>> THEN MaxKey(scores, 2, scores[1]).name ELSE "algebra"

\* the same without the early return: the last operation found is returned
RECURSIVE FirstOperation_LastMatch(_, _)
FirstOperation_LastMatch(text_lower, n) ==
    IF n > Len(OperationKeywords) THEN "solve"
    ELSE IF FirstOperation_LastMatch(text_lower, n + 1) /= "solve"
    THEN FirstOperation_LastMatch(text_lower, n + 1)
    ELSE IF \E k \in 1..Len(OperationKeywords[n].keywords) :
                Contains(text_lower, OperationKeywords[n].keywords[k])
    THEN OperationKeywords[n].name
    ELSE "solve"

\* for operation, keywords in ...items(): for keyword in keywords:
\*     if keyword in text_lower: return operation
RECURSIVE FirstOperation(_, _)
FirstOperation(text_lower, n) ==
    IF n > Len(OperationKeywords) THEN "solve"
    ELSE IF \E k \in 1..Len(OperationKeywords[n].keywords) :
                Contains(text_lower, OperationKeywords[n].keywords[k])
    THEN OperationKeywords[n].name
    ELSE FirstOperation(text_lower, n + 1)

_detect_operation(text_lower) == FirstOperation(text_lower, 1)

\* r'\b([a-zA-Z])\b'
SingleLetterPattern == <<WB, Cls(Letters, "one"), WB>>

\* set(variables) at the end of _extract_variables_simple: the isolated single
\* letters of the text that are not excluded
_extract_variables_simple(text) ==
    {text[i] : i \in {j \in 1..Len(text) : MatchesAt(SingleLetterPattern, 1, text, j)}}
        \ {"a", "i", "A", "I", "e", "E"}

\* the lists that list(set(...)) may return for the set S: the order of
\* iteration of a set of strings depends on the hash seed of the process
Orders(S) ==
    {f \in [1..Cardinality(S) -> S] : \A i, j \in 1..Cardinality(S) : i /= j => f[i] /= f[j]}

\* r'<prefix>\s+([a-zA-Z])' with re.IGNORECASE: group 1 of the first match
ExplicitTarget(prefix, text) ==
    LET p == <<Lit(prefix), Cls(Whitespace, "plus"), Cls(LowerLetters, "one")>>
        m == ToLower(text)
        i == FirstStart(p, m, 1)
    IN  IF i = 0 THEN None ELSE text[GreedyEnds(p, 1, m, i)[3] - 1]

_detect_solve_for(text, variables) ==
    IF ExplicitTarget(<<"s","o","l","v","e"," ","f","o","r">>, text) /= None
    THEN ExplicitTarget(<<"s","o","l","v","e"," ","f","o","r">>, text)
    ELSE IF ExplicitTarget(<<"f","i","n","d">>, text) /= None
    THEN ExplicitTarget(<<"f","i","n","d">>, text)
    ELSE IF ExplicitTarget(<<"w","h","a","t"," ","i","s">>, text) /= None
    THEN ExplicitTarget(<<"w","h","a","t"," ","i","s">>, text)
    ELSE IF \E k \in 1..Len(variables) : variables[k] = "x" THEN "x"
    ELSE IF variables /= <<>> THEN variables[1]
    ELSE None

\* r'(solve|find|calculate|what is|determine)\s+' -> ''
QuestionWordPattern ==
    <<Alt(<< <<"s","o","l","v","e">>, <<"f","i","n","d">>,
             <<"c","a","l","c","u","l","a","t","e">>, <<"w","h","a","t"," ","i","s">>,
             <<"d","e","t","e","r","m","i","n","e">> >>),
      Cls(Whitespace, "plus")>>

\* r'(for|the value of)\s+[a-zA-Z]\s*' -> ''
ForVariablePattern ==
    <<Alt(<< <<"f","o","r">>, <<"t","h","e"," ","v","a","l","u","e"," ","o","f">> >>),
      Cls(Whitespace, "plus"), Cls(LowerLetters, "one"), Cls(Whitespace, "star")>>

_extract_equation(text) ==
    Strip(SubIgnoreCase(ForVariablePattern, <<>>,
                        SubIgnoreCase(QuestionWordPattern, <<>>, text)))

\* the same with the two middle steps exchanged
_calculate_confidence_Swapped(problem_type, operation) ==
    IF problem_type /= "algebra" /\ operation /= "solve" THEN 9
    ELSE IF problem_type /= "algebra" THEN 6
    ELSE IF operation /= "solve" THEN 7
    ELSE 5

\* confidence, in tenths
_calculate_confidence(problem_type, operation) ==
    IF problem_type /= "algebra" /\ operation /= "solve" THEN 9
    ELSE IF problem_type /= "algebra" THEN 7
    ELSE IF operation /= "solve" THEN 6
    ELSE 5

\* the positions after a match of atoms k.. of p that starts at position i
RECURSIVE AllEnds(_, _, _, _)
AllEnds(p, k, s, i) ==
    IF k > Len(p) THEN {i}
    ELSE UNION {AllEnds(p, k + 1, s, j) : j \in AtomEnds(p[k], s, i)}

\* re.fullmatch(p, s) is not None
FullMatch(p, s) == (Len(s) + 1) \in AllEnds(p, 1, s, 1)

\* the texts float() accepts: a decimal number with an optional exponent,
\* or inf, infinity, nan, with an optional sign, surrounded by whitespace
\* (the underscores that may separate digits are left out)
FloatPatterns ==
    LET sign == Cls({"+","-"}, "opt")
        e    == Cls({"e","E"}, "one")
        ds   == Cls(Digits, "plus")
        dz   == Cls(Digits, "star")
        dot  == Lit(<<".">>)
    IN  { <<sign, ds>>, <<sign, ds, dot, dz>>, <<sign, dot, ds>>,
          <<sign, ds, e, sign, ds>>, <<sign, ds, dot, dz, e, sign, ds>>,
          <<sign, dot, ds, e, sign, ds>>,
          <<sign, Alt(<< <<"i","n","f">>, <<"i","n","f","i","n","i","t","y">>,
                         <<"n","a","n">> >>)>> }

\* float(s) does not raise ValueError
FloatOk(s) == \E p \in FloatPatterns : FullMatch(p, ToLower(Strip(s)))

\* r'(?:from|between)\s+([-\d.]+)\s+(?:to|and)\s+([-\d.]+)'
FromToPattern ==
    <<Alt(<< <<"f","r","o","m">>, <<"b","e","t","w","e","e","n">> >>),
      Cls(Whitespace, "plus"), Cls(Digits \cup {"-","."}, "plus"), Cls(Whitespace, "plus"),
      Alt(<< <<"t","o">>, <<"a","n","d">> >>),
      Cls(Whitespace, "plus"), Cls(Digits \cup {"-","."}, "plus")>>

\* r'\[([^,]+),\s*([^\]]+)\]'
BracketPattern ==
    <<Lit(<<"[">>), NCls({","}, "plus"), Lit(<<",">>), Cls(Whitespace, "star"),
      NCls({"]"}, "plus"), Lit(<<"]">>)>>

\* the text of the atom k of a match that starts at i and has the ends given
Group(s, i, ends, k) == SubSeq(s, IF k = 1 THEN i ELSE ends[k - 1], ends[k] - 1)

\* the limits found, or the ValueError that float() raises outside a try
\* block; a float is written as the text it was read from and None as <<>>
_extract_limits(text) ==
    LET i1 == FirstStart(FromToPattern, text, 1)
        e1 == GreedyEnds(FromToPattern, 1, text, i1)
        i2 == FirstStart(BracketPattern, text, 1)
        e2 == GreedyEnds(BracketPattern, 1, text, i2)
    IN  IF i1 /= 0
        THEN IF FloatOk(Group(text, i1, e1, 3)) /\ FloatOk(Group(text, i1, e1, 7))
             THEN [raised |-> FALSE,
                   value  |-> <<Strip(Group(text, i1, e1, 3)), Strip(Group(text, i1, e1, 7))>>]
             ELSE [raised |-> TRUE, value |-> <<>>]
        ELSE IF i2 /= 0 /\ FloatOk(Group(text, i2, e2, 2)) /\ FloatOk(Group(text, i2, e2, 5))
        THEN [raised |-> FALSE,
              value  |-> <<Strip(Group(text, i2, e2, 2)), Strip(Group(text, i2, e2, 5))>>]
        ELSE [raised |-> FALSE, value |-> <<>>]

\* the same with the confidence raised when the target is the first variable
\* of the list
classify_TargetBoost(input_text, variables) ==
    LET input_lower  == ToLower(input_text)
        problem_type == _detect_problem_type(input_text, input_lower)
        operation    == _detect_operation(input_lower)
        solve_for    == _detect_solve_for(input_text, variables)
    IN  [problem_type |-> problem_type,
         operation    |-> operation,
         equation     |-> _extract_equation(input_text),
         variables    |-> variables,
         solve_for    |-> solve_for,
         limits       |-> _extract_limits(input_text).value,
         confidence   |-> IF variables /= <<>> /\ solve_for = variables[1]
                          THEN 10
                          ELSE _calculate_confidence(problem_type, operation)]

\* classify(input_text); variables is the list that list(set(...)) returned.
\* The value is the dict returned, or the exception that escapes.
classify(input_text, variables) ==
    LET input_lower  == ToLower(input_text)
        problem_type == _detect_problem_type(input_text, input_lower)
        operation    == _detect_operation(input_lower)
        solve_for    == _detect_solve_for(input_text, variables)
        equation     == _extract_equation(input_text)
        limits       == _extract_limits(input_text)
    IN  IF limits.raised THEN [raised |-> "ValueError"]
        ELSE [problem_type |-> problem_type,
              operation    |-> operation,
              equation     |-> equation,
              variables    |-> variables,
              solve_for    |-> solve_for,
              limits       |-> limits.value,
              confidence   |-> _calculate_confidence(problem_type, operation)]

----------------------------------------------------------------------------
(* The solvers of FastMathSolver, as far as the request pipeline sees them. *)
(* What SymPy computes is outside the model: a solver that reaches it ends  *)
(* as one of BackendOutcomes.  A solver's value is the dict it returns and  *)
(* the stages it ran on the input.                                          *)

\* the computation succeeds, or the solver gives up with an error dict, or
\* an exception is raised and the solver's except clause turns it into one
BackendOutcomes == {"ok", "failed", "raised"}

BackendResult(backend, type) ==
    IF backend = "ok" THEN [success |-> TRUE, type |-> type]
    ELSE [success |-> FALSE,
          error   |-> IF backend = "failed" THEN "could not solve" ELSE "exception"]

\* the dict a solver returns when validation fails
ValidationFailure(validation, equation) ==
    [success    |-> FALSE,
     error      |-> validation.error,
     message    |-> Get(validation, "user_message", validation.error),
     suggestion |-> Get(validation, "suggestion", ""),
     hint       |-> Get(validation, "hint", ""),
     original   |-> equation]

\* what solve_for_var may be after the auto-detection: the name of the one
\* free symbol of the parsed text, a letter of the text, or None when the
\* parsed text has no free symbol or several
AutoVariables(equation) ==
    {None} \cup {equation[i] : i \in {j \in 1..Len(equation) : equation[j] \in Letters}}

\* solve_equation(equation): solve_for_var is left at its default None, so
\* the variable of the result is the auto-detected one
solve_equation(equation, parse, backend, auto) ==
    LET validation == _validate_equation(equation, "equation", parse)
        cleaned    == _clean_latex(equation)
    IN  IF ~validation.valid
        THEN [result |-> ValidationFailure(validation, equation),
              stages |-> <<"validate">>]
        ELSE IF Contains(Replace(cleaned, <<" ">>, <<>>), <<"/", "0">>)
        THEN [result |-> [success |-> FALSE, error |-> "Division by zero",
                          original |-> cleaned],
              stages |-> <<"validate", "normalize">>]
        ELSE [result |-> IF backend = "ok"
                         THEN [success |-> TRUE, type |-> "equation_solution",
                               variable |-> auto]
                         ELSE BackendResult(backend, "equation_solution"),
              stages |-> <<"validate", "normalize", "backend">>]

\* the operation type solve_calculus validates with
CalculusOperationType(equation) ==
    IF \/ Contains(equation, <<BS,"i","n","t">>)
       \/ Contains(equation, <<"U_int">>)
       \/ Contains(ToLower(equation), <<"i","n","t","e","g","r","a","t","e">>)
    THEN "integral"
    ELSE IF \/ Contains(equation, <<"d","/","d">>)
            \/ Contains(equation, <<BS,"f","r","a","c","{","d">>)
            \/ Contains(ToLower(equation), <<"d","e","r","i","v","a","t","i","v","e">>)
    THEN "derivative"
    ELSE IF \/ Contains(equation, <<BS,"l","i","m">>)
            \/ Contains(ToLower(equation), <<"l","i","m">>)
            \/ Contains(ToLower(equation), <<"l","i","m","i","t">>)
    THEN "limit"
    ELSE "general"

\* the unicode_to_latex table of _convert_unicode_to_latex, in its order
ConvertUnicodeTable ==
    << <<"U_int",    <<BS,"i","n","t">> >>,
       <<"U_part",   <<BS,"p","a","r","t","i","a","l">> >>,
       <<"U_sum",    <<BS,"s","u","m">> >>,
       <<"U_prod",   <<BS,"p","r","o","d">> >>,
       <<"U_sqrt",   <<BS,"s","q","r","t">> >>,
       <<"U_inf",    <<BS,"i","n","f","t","y">> >>,
       <<"U_sup2",   <<"^","{","2","}">> >>,
       <<"U_sup3",   <<"^","{","3","}">> >>,
       <<"U_sup4",   <<"^","{","4","}">> >>,
       <<"U_sup5",   <<"^","{","5","}">> >>,
       <<"U_sup6",   <<"^","{","6","}">> >>,
       <<"U_sup7",   <<"^","{","7","}">> >>,
       <<"U_sup8",   <<"^","{","8","}">> >>,
       <<"U_sup9",   <<"^","{","9","}">> >>,
       <<"U_sup0",   <<"^","{","0","}">> >>,
       <<"U_ne",     <<"!","=">> >>,
       <<"U_le",     <<"<","=">> >>,
       <<"U_ge",     <<">","=">> >>,
       <<"U_pm",     <<"+","-">> >>,
       <<"U_times",  <<"*">> >>,
       <<"U_div",    <<"/">> >>,
       <<"U_approx", <<"=">> >> >>

_convert_unicode_to_latex(text) == ApplyTable(text, ConvertUnicodeTable)

\* '.' without re.DOTALL, and with it
Dot(q) == NCls({"\n"}, q)
DotAll(q) == NCls({}, q)

\* limit_patterns (lines 682-687), searched with re.DOTALL
LimitPatterns ==
    << <<Lit(<<BS,"l","i","m","_","{">>), Cls(LowerLetters, "one"), Cls(Whitespace, "star"),
         Lit(<<BS,"t","o">>), Cls(Whitespace, "star"), NCls({"}"}, "plus"), Lit(<<"}">>),
         Cls(Whitespace, "star"), DotAll("plus")>>,
       <<Lit(<<"l","i","m">>), Cls(Whitespace, "plus"), Cls(LowerLetters, "one"),
         Cls(Whitespace, "star"), Lit(<<"U_arrow">>), Cls(Whitespace, "star"),
         NCls(Whitespace, "plus"), Cls(Whitespace, "plus"), DotAll("plus")>>,
       <<Lit(<<"l","i","m","i","t">>), Cls(Whitespace, "star"), Lit(<<"(">>),
         Cls(Whitespace, "star"), DotAll("lazy"), Cls(Whitespace, "star"), Lit(<<",">>),
         Cls(Whitespace, "star"), Cls(LowerLetters, "one"), Cls(Whitespace, "star"),
         Lit(<<",">>), Cls(Whitespace, "star"), DotAll("lazy"), Cls(Whitespace, "star"),
         Lit(<<")">>)>>,
       <<Lit(<<BS,"l","i","m","_","{">>), Cls(LowerLetters, "one"),
         Lit(<<BS,"t","o">>), Cls(Whitespace, "star"), NCls({"}"}, "plus"), Lit(<<"}">>),
         Cls(Whitespace, "star"), DotAll("plus")>> >>

\* the derivative patterns of the early detection (lines 731-739), in order:
\* d/dx(expr), d/dx expr, \frac{d}{dx}(expr), \frac{d}{dx} expr
EarlyDerivativePatterns ==
    << <<Lit(<<"d","/","d">>), Cls(Letters, "one"), Cls(Whitespace, "star"), Lit(<<"(">>),
         Dot("plus"), Lit(<<")">>)>>,
       <<Lit(<<"d","/","d">>), Cls(Letters, "one"), Cls(Whitespace, "plus"), Dot("plus")>>,
       <<Lit(<<BS,"f","r","a","c","{","d","}","{","d">>), Cls(Letters, "one"), Lit(<<"}">>),
         Cls(Whitespace, "star"), Lit(<<"(">>), Dot("plus"), Lit(<<")">>)>>,
       <<Lit(<<BS,"f","r","a","c","{","d","}","{","d">>), Cls(Letters, "one"), Lit(<<"}">>),
         Cls(Whitespace, "plus"), Dot("plus")>> >>

\* r'\\int_\{([^}]+)\}\^\{([^}]+)\}\s*(.+?)\s+d([a-z])'
DefiniteIntegralPattern ==
    <<Lit(<<BS,"i","n","t","_","{">>), NCls({"}"}, "plus"), Lit(<<"}","^","{">>),
      NCls({"}"}, "plus"), Lit(<<"}">>), Cls(Whitespace, "star"), Dot("lazy"),
      Cls(Whitespace, "plus"), Lit(<<"d">>), Cls(LowerLetters, "one")>>

\* r'\\int\s*(.+?)\s*d([a-z])'
IndefiniteIntegralPattern ==
    <<Lit(<<BS,"i","n","t">>), Cls(Whitespace, "star"), Dot("lazy"),
      Cls(Whitespace, "star"), Lit(<<"d">>), Cls(LowerLetters, "one")>>

\* the derivative patterns tried on the cleaned text (lines 879-889); the
\* first of the source is the second anchored at the end, so what it matches
\* the second matches
LateDerivativePatterns ==
    << <<Lit(<<"d","/","d">>), Cls(LowerLetters, "one"), Cls(Whitespace, "star"), Lit(<<"(">>),
         Dot("plus"), Lit(<<")">>)>>,
       <<Lit(<<BS,"f","r","a","c","{","d","}","{","d">>), Cls(LowerLetters, "one"),
         Lit(<<"}">>), Cls(Whitespace, "star"), Lit(<<"(">>), Dot("plus"), Lit(<<")">>)>>,
       <<Lit(<<BS,"f","r","a","c","{","d","}","{","d">>), Cls(LowerLetters, "one"),
         Lit(<<"}">>), Cls(Whitespace, "star"), Dot("plus")>> >>

\* the limit patterns tried on the cleaned text (lines 917-938), written in
\* lower case for re.IGNORECASE; the optional words of the fourth pattern
\* are written out as its four variants
LateLimitPatterns ==
    LET head(as) == <<Lit(<<"l","i","m","i","t">>), Cls(Whitespace, "plus")>> \o as
                      \o <<Cls(LowerLetters, "one"), Cls(Whitespace, "plus"),
                           Alt(<< <<"a","p","p","r","o","a","c","h","e","s">>, <<"t","o">> >>),
                           Cls(Whitespace, "plus"), NCls(Whitespace, "plus"),
                           Cls(Whitespace, "plus")>>
        as   == <<Lit(<<"a","s">>), Cls(Whitespace, "plus")>>
        of   == <<Lit(<<"o","f">>), Cls(Whitespace, "plus")>>
    IN  << LimitPatterns[1],
           LimitPatterns[2],
           <<Lit(<<"l","i","m">>), Cls({"_"}, "opt"), Cls({"{"}, "opt"), Cls(LowerLetters, "one"),
             Cls(Whitespace, "star"), Lit(<<"-",">">>), Cls(Whitespace, "star"),
             NCls({"}"}, "plus"), Cls({"}"}, "opt"), Cls(Whitespace, "star"), DotAll("plus")>>,
           head(<<>>) \o <<DotAll("plus")>>,
           head(as) \o <<DotAll("plus")>>,
           head(<<>>) \o of \o <<DotAll("plus")>>,
           head(as) \o of \o <<DotAll("plus")>> >>

\* some pattern of the sequence is found in the text
SearchAny(patterns, s) == \E n \in 1..Len(patterns) : Search(patterns[n], s)

\* self._parse(text) raises: a text in which _clean_latex left a backslash,
\* an empty text or a text that ends with an operator is no expression
Unparseable(text) ==
    \/ Strip(text) = <<>>
    \/ Contains(text, <<BS>>)
    \/ Strip(text)[Len(Strip(text))] \in {"+", "-", "*", "/", "^", "="}

\* The factors of a parsed integrand (the args of a SymPy Mul), as far as
\* the detection of integration by parts looks at them: str(arg), whether
\* arg is a number, a symbol, a power of a symbol, a function call or
\* something else, and arg.has(var).  An integrand that is no product has
\* one factor.
Factor(str, kind, has_var) == [str |-> str, kind |-> kind, has_var |-> has_var]

\* the places of the text where a '*' stands that is no part of '**'
StarsOf(text) ==
    {i \in 1..Len(text) :
        /\ text[i] = "*"
        /\ (i = 1 \/ text[i - 1] /= "*")
        /\ (i = Len(text) \/ text[i + 1] /= "*")}

\* the pieces of the text between its single stars, from position from on
RECURSIVE PiecesFrom(_, _)
PiecesFrom(text, from) ==
    LET stars == {i \in StarsOf(text) : i >= from}
    IN  IF stars = {} THEN <<Strip(SubSeq(text, from, Len(text)))>>
        ELSE <<Strip(SubSeq(text, from, Min(stars) - 1))>> \o PiecesFrom(text, Min(stars) + 1)

\* a number, a letter, a letter to a numeric power x**2 or x**(2), and a
\* call f(x) of a function of one letter
NumberForm == <<Cls(Digits, "plus")>>
PowerForm ==
    <<Cls(Letters, "one"), Lit(<<"*","*">>), Cls({"("}, "opt"), Cls(Digits, "plus"),
      Cls({")"}, "opt")>>
CallForm ==
    <<Alt(<< <<"s","i","n">>, <<"c","o","s">>, <<"t","a","n">>, <<"e","x","p">>,
             <<"l","o","g">> >>),
      Lit(<<"(">>), Cls(Letters, "one"), Lit(<<")">>)>>

\* what the parser makes of one piece of a product
ParseFactor(piece, var) ==
    IF FullMatch(NumberForm, piece) THEN Factor(piece, "number", FALSE)
    ELSE IF Len(piece) = 1 /\ piece[1] \in Letters
    THEN Factor(piece, "symbol", piece = var)
    ELSE IF FullMatch(PowerForm, piece) THEN Factor(piece, "power", <<piece[1]>> = var)
    ELSE IF FullMatch(CallForm, piece)
    THEN Factor(piece, "function", <<piece[Len(piece) - 1]>> = var)
    ELSE Factor(piece, "other", Contains(piece, var))

\* self._parse(text).args for the products written with '*' (2x is such a
\* product once _clean_latex has made it 2*x): the factors, the numbers
\* first, then the symbols and powers, then the rest, as SymPy orders them
ParseFactors(text, var) ==
    LET pieces == PiecesFrom(text, 1)
        parsed == [i \in 1..Len(pieces) |-> ParseFactor(pieces[i], var)]
        IsNumber(f) == f.kind = "number"
        IsSymbolic(f) == f.kind \in {"symbol", "power"}
        IsRest(f) == f.kind \in {"function", "other"}
    IN  SelectSeq(parsed, IsNumber) \o SelectSeq(parsed, IsSymbolic) \o SelectSeq(parsed, IsRest)

\* arg.is_Poly or arg.is_polynomial(var) or arg.is_Symbol: an expression
\* free of var is a polynomial in var
IsPolynomial(arg) == arg.kind \in {"number", "symbol", "power"} \/ ~arg.has_var

\* any(func in str(arg) for func in ['sin', 'cos', 'exp', 'log'])
NamesFunction(arg) ==
    \E func \in {<<"s","i","n">>, <<"c","o","s">>, <<"e","x","p">>, <<"l","o","g">>} :
        Contains(arg.str, func)

\* the factors of args other than the one at index i: integrand / arg
Without(args, i) == SubSeq(args, 1, i - 1) \o SubSeq(args, i + 1, Len(args))

\* the loop of lines 820-836, stopped at index i (0: it ran to the end)
SplitAt(args, i) ==
    IF i = 0 THEN [needs_ibp |-> FALSE, u |-> <<>>, dv |-> <<>>]
    ELSE IF IsPolynomial(args[i])
    THEN [needs_ibp |-> TRUE, u |-> <<args[i]>>, dv |-> Without(args, i)]
    ELSE [needs_ibp |-> TRUE, u |-> Without(args, i), dv |-> <<args[i]>>]

\* any(pattern in str(integrand).lower() for pattern in ['*cos', ...]): the
\* string of a product is its factors joined by '*'
HasStarFunction(args) ==
    \E i \in 2..Len(args) :
        \E func \in {<<"c","o","s">>, <<"s","i","n">>, <<"e","x","p">>, <<"l","o","g">>} :
            StartsAt(args[i].str, 1, func)

\* the second detection (lines 838-855), reached with needs_ibp unset
SplitByParts(args) ==
    LET IsPolyPart(arg) == ~arg.has_var \/ arg.kind \in {"number", "symbol", "power"}
        IsFuncPart(arg) == ~IsPolyPart(arg)
    IN  IF /\ HasStarFunction(args)
           /\ SelectSeq(args, IsPolyPart) /= <<>>
           /\ SelectSeq(args, IsFuncPart) /= <<>>
        THEN [needs_ibp |-> TRUE, u |-> SelectSeq(args, IsPolyPart),
              dv |-> SelectSeq(args, IsFuncPart)]
        ELSE [needs_ibp |-> FALSE, u |-> <<>>, dv |-> <<>>]

\* needs_ibp, u_part and dv_part after the two detections (lines 808-855)
DetectIntegrationByParts(args) ==
    IF Len(args) < 2 THEN [needs_ibp |-> FALSE, u |-> <<>>, dv |-> <<>>]
    ELSE LET stops == {i \in 1..Len(args) :
                          args[i].has_var /\ (IsPolynomial(args[i]) \/ NamesFunction(args[i]))}
         IN  IF stops /= {} THEN SplitAt(args, Min(stops)) ELSE SplitByParts(args)

\* the indefinite integral of the text and its parsed form: by parts when
\* the detection says so and integrate_by_parts succeeds, directly otherwise
IndefiniteResult(integrand_str, var_str, args, ibp, backend) ==
    IF Unparseable(integrand_str) THEN [success |-> FALSE, error |-> "exception"]
    ELSE IF backend /= "ok" THEN BackendResult(backend, "indefinite_integral")
    ELSE IF ibp.needs_ibp
    THEN [success |-> TRUE, type |-> "integration_by_parts", u |-> ibp.u, dv |-> ibp.dv]
    ELSE [success |-> TRUE, type |-> "indefinite_integral",
          integrand |-> [text |-> integrand_str, args |-> args], variable |-> var_str]

\* the match of the indefinite pattern starts at i
IndefiniteParsed(integrand_str, var_str, args, backend) ==
    IndefiniteResult(integrand_str, var_str, args, DetectIntegrationByParts(args), backend)

\* the indefinite integral of the cleaned integrand
IndefiniteCleaned(integrand_str, var_str, backend) ==
    IndefiniteParsed(integrand_str, var_str, ParseFactors(integrand_str, var_str), backend)

IndefiniteIntegral(equation, i, ends, backend) ==
    IndefiniteCleaned(_clean_latex(Group(equation, i, ends, 3)), Group(equation, i, ends, 6),
                      backend)

\* the definite integral of the cleaned bounds and integrand: cleaned[2] is
\* the lower bound, cleaned[4] the upper bound, cleaned[7] the integrand
DefiniteCleaned(cleaned, var_str, backend) ==
    IF Unparseable(cleaned[2]) \/ Unparseable(cleaned[4]) \/ Unparseable(cleaned[7])
    THEN [success |-> FALSE, error |-> "exception"]
    ELSE IF backend /= "ok" THEN BackendResult(backend, "definite_integral")
    ELSE [success |-> TRUE, type |-> "definite_integral",
          integrand |-> [text |-> cleaned[7], args |-> ParseFactors(cleaned[7], var_str)],
          variable |-> var_str,
          limits |-> <<cleaned[2], cleaned[4]>>]

\* the match of the definite pattern starts at i
DefiniteIntegral(equation, i, ends, backend) ==
    DefiniteCleaned([g \in {2, 4, 7} |-> _clean_latex(Group(equation, i, ends, g))],
                    Group(equation, i, ends, 10), backend)

\* the chains tried on the cleaned text (lines 872-988): derivative, limit,
\* series, and the not-identified outcome
LateChains(cleaned, backend) ==
    IF /\ \/ Contains(cleaned, <<"d","/","d">>)
          \/ Contains(cleaned, <<BS,"f","r","a","c","{","d">>)
          \/ Contains(ToLower(cleaned), <<"d","e","r","i","v","a","t","i","v","e">>)
       /\ SearchAny(LateDerivativePatterns, cleaned)
    THEN [result |-> BackendResult(backend, "derivative"),
          stages |-> <<"validate", "normalize", "derivative">>]
    ELSE IF /\ \/ Contains(cleaned, <<"U_arrow">>)
               \/ Contains(ToLower(cleaned), <<"l","i","m">>)
            /\ SearchAny(LateLimitPatterns, ToLower(cleaned))
    THEN [result |-> BackendResult(backend, "limit"),
          stages |-> <<"validate", "normalize", "limit">>]
    ELSE IF \/ Contains(ToLower(cleaned), <<"t","a","y","l","o","r">>)
            \/ Contains(ToLower(cleaned), <<"s","e","r","i","e","s">>)
    THEN [result |-> BackendResult(backend, "series_expansion"),
          stages |-> <<"validate", "normalize", "series_expansion">>]
    ELSE [result |-> [success |-> FALSE, error |-> "Could not identify calculus operation"],
          stages |-> <<"validate", "normalize">>]

\* the chains of solve_calculus in the order of the function body (lines
\* 677-988), on the text after _convert_unicode_to_latex: limit, derivative,
\* definite integral, indefinite integral, and then the chains on the
\* cleaned text; the last stage names the chain that took the request
CalculusChains(equation, backend) ==
    IF SearchAny(LimitPatterns, equation)
    THEN [result |-> BackendResult(backend, "limit"),
          stages |-> <<"validate", "normalize", "limit">>]
    ELSE IF /\ \/ Contains(equation, <<"d","/","d">>)
               \/ Contains(equation, <<BS,"f","r","a","c","{","d">>)
               \/ Contains(ToLower(equation), <<"d","e","r","i","v","a","t","i","v","e">>)
            /\ SearchAny(EarlyDerivativePatterns, equation)
    THEN [result |-> BackendResult(backend, "derivative"),
          stages |-> <<"validate", "normalize", "derivative">>]
    ELSE IF Search(DefiniteIntegralPattern, equation)
    THEN [result |-> DefiniteIntegral(equation, FirstStart(DefiniteIntegralPattern, equation, 1),
                         GreedyEnds(DefiniteIntegralPattern, 1, equation,
                                    FirstStart(DefiniteIntegralPattern, equation, 1)),
                         backend),
          stages |-> <<"validate", "normalize", "definite_integral">>]
    ELSE IF /\ \/ Contains(equation, <<BS,"i","n","t">>)
               \/ Contains(ToLower(equation), <<"i","n","t","e","g","r","a","t","e">>)
            /\ Search(IndefiniteIntegralPattern, equation)
    THEN [result |-> IndefiniteIntegral(equation,
                         FirstStart(IndefiniteIntegralPattern, equation, 1),
                         GreedyEnds(IndefiniteIntegralPattern, 1, equation,
                                    FirstStart(IndefiniteIntegralPattern, equation, 1)),
                         backend),
          stages |-> <<"validate", "normalize", "indefinite_integral">>]
    ELSE LateChains(_clean_latex(equation), backend)

solve_calculus(equation, parse, backend) ==
    LET validation == _validate_equation(equation, CalculusOperationType(equation), parse)
    IN  IF ~validation.valid
        THEN [result |-> ValidationFailure(validation, equation),
              stages |-> <<"validate">>]
        ELSE CalculusChains(_convert_unicode_to_latex(equation), backend)

solve_physics(equation, parse, backend) ==
    LET validation == _validate_equation(equation, "equation", parse)
    IN  IF ~validation.valid
        THEN [result |-> ValidationFailure(validation, equation),
              stages |-> <<"validate">>]
        ELSE [result |-> BackendResult(backend, "physics_equation"),
              stages |-> <<"validate", "normalize", "backend">>]

\* no validation: the text is rewritten, cleaned and parsed at once
solve_trigonometry(equation, backend) ==
    [result |-> BackendResult(backend, "trigonometric_simplification"),
     stages |-> <<"normalize", "backend">>]

\* re.findall(r'-?\d+\.?\d*', equation) is not empty
HasNumber(equation) == \E i \in 1..Len(equation) : equation[i] \in Digits

\* the branches that compute from the numbers of the text: the keywords of
\* each and the type of its result, in the order of the code
NumberBranches ==
    << [keywords |-> {<<"m","e","a","n">>, <<"a","v","e","r","a","g","e">>},
        type     |-> "mean"],
       [keywords |-> {<<"m","e","d","i","a","n">>}, type |-> "median"],
       [keywords |-> {<<"m","o","d","e">>}, type |-> "mode"],
       [keywords |-> {<<"v","a","r","i","a","n","c","e">>, <<"s","t","d">>,
                      <<"s","t","a","n","d","a","r","d"," ","d","e","v","i","a","t","i","o","n">>},
        type     |-> "variance_std"] >>

\* the keywords of the branches that go to the distributions and the
\* counting formulas
DistributionKeywords ==
    {<<"b","i","n","o","m","i","a","l">>, <<"n","o","r","m","a","l">>,
     <<"g","a","u","s","s","i","a","n">>, <<"p","e","r","m","u","t","a","t","i","o","n">>,
     <<"c","o","m","b","i","n","a","t","i","o","n">>}

\* no validation: the text is searched for the keywords as it came.  A
\* number branch computes in place, a distribution branch ends as the backend
\* outcome says, and a text with no keyword is not identified
solve_statistics(equation, backend) ==
    LET equation_lower == ToLower(equation)
        taken == {n \in 1..Len(NumberBranches) :
                     /\ \E kw \in NumberBranches[n].keywords : Contains(equation_lower, kw)
                     /\ HasNumber(equation)}
    IN  IF taken /= {}
        THEN [result |-> [success |-> TRUE, type |-> NumberBranches[Min(taken)].type],
              stages |-> <<"route", "backend">>]
        ELSE IF \E kw \in DistributionKeywords : Contains(equation_lower, kw)
        THEN [result |-> BackendResult(backend, "distribution"),
              stages |-> <<"route", "backend">>]
        ELSE [result |-> [success |-> FALSE,
                          error   |-> "Could not identify statistics operation"],
              stages |-> <<"route">>]

solve_linear_algebra(equation, parse, backend) ==
    LET validation == _validate_equation(equation, "matrix", parse)
    IN  IF ~validation.valid
        THEN [result |-> ValidationFailure(validation, equation),
              stages |-> <<"validate">>]
        ELSE [result |-> BackendResult(backend, "determinant"),
              stages |-> <<"validate", "backend">>]

----------------------------------------------------------------------------
(* fast_solve *)

\* str.lower() on the note types of the model
LowerNoteType(note_type) ==
    CASE note_type = "Stats" -> "stats"
      [] OTHER -> note_type

\* any(kw in s for kw in kws)
AnyIn(kws, s) == \E kw \in kws : Contains(s, kw)

_detect_type(equation) ==
    LET eq_lower == ToLower(equation)
    IN  IF AnyIn({<<BS,"i","n","t">>, <<BS,"l","i","m">>, <<BS,"f","r","a","c","{","d">>,
                  <<"U_int">>, <<"U_part">>, <<"U_sum">>, <<"U_prod">>}, equation)
        THEN "calculus"
        ELSE IF AnyIn({<<"i","n","t","e","g","r","a","t","e">>,
                       <<"d","e","r","i","v","a","t","i","v","e">>,
                       <<"l","i","m","i","t">>, <<"d","/","d">>,
                       <<"t","a","y","l","o","r">>}, eq_lower)
        THEN "calculus"
        ELSE IF AnyIn({<<"s","i","n">>, <<"c","o","s">>, <<"t","a","n">>,
                       <<"s","e","c">>, <<"c","s","c">>, <<"c","o","t">>}, eq_lower)
        THEN "trigonometry"
        ELSE IF AnyIn({<<"m","e","a","n">>, <<"v","a","r","i","a","n","c","e">>,
                       <<"s","t","d">>, <<"p","r","o","b","a","b","i","l","i","t","y">>,
                       <<"a","v","e","r","a","g","e">>}, eq_lower)
        THEN "statistics"
        ELSE IF AnyIn({<<"m","a","t","r","i","x">>,
                       <<"d","e","t","e","r","m","i","n","a","n","t">>,
                       <<"e","i","g","e","n","v","a","l","u","e">>,
                       <<"i","n","v","e","r","s","e">>, <<"d","e","t">>}, eq_lower)
        THEN "linear_algebra"
        ELSE IF Contains(equation, <<"[", "[">>)
        THEN "linear_algebra"
        ELSE IF AnyIn({<<"v","e","l","o","c","i","t","y">>,
                       <<"a","c","c","e","l","e","r","a","t","i","o","n">>,
                       <<"f","o","r","c","e">>, <<"e","n","e","r","g","y">>,
                       <<"m","o","m","e","n","t","u","m">>}, eq_lower)
        THEN "physics"
        ELSE "algebra"

\* equation.strip(), then one trailing and one leading equals sign removed
PreprocessEquation(equation) ==
    LET e1 == Strip(equation)
        e2 == IF e1 /= <<>> /\ e1[Len(e1)] = "=" THEN Strip(SubSeq(e1, 1, Len(e1) - 1)) ELSE e1
    IN  IF e2 /= <<>> /\ e2[1] = "=" THEN Strip(SubSeq(e2, 2, Len(e2))) ELSE e2

\* has_integral or has_derivative or has_limit
CalculusHint(equation) ==
    LET lower_eq == ToLower(equation)
    IN  \/ Contains(equation, <<BS,"i","n","t">>) \/ Contains(equation, <<"U_int">>)
        \/ Contains(lower_eq, <<"d","/","d">>)
        \/ Contains(equation, <<BS,"f","r","a","c","{","d">>)
        \/ Contains(equation, <<"U_part">>)
        \/ Contains(equation, <<BS,"l","i","m">>) \/ Contains(lower_eq, <<"l","i","m">>)
        \/ Contains(equation, <<"U_arrow">>)

\* the note type fast_solve routes by
RoutedNoteType(note_type, equation) ==
    LET given == IF note_type \in {None, ""} THEN "auto" ELSE LowerNoteType(note_type)
    IN  IF given = "auto"
        THEN IF CalculusHint(equation) THEN "calculus" ELSE _detect_type(equation)
        ELSE IF given /= "calculus" /\ CalculusHint(equation) THEN "calculus"
        ELSE given

\* the same with the confidence the classifier would give the note type
SuccessResponse_Scored(note_type, equation, result) ==
    [success        |-> TRUE,
     classification |-> [problem_type  |-> note_type,
                         specific_type |-> Get(result, "type", note_type),
                         confidence    |-> _calculate_confidence(note_type, "solve"),
                         equation      |-> equation],
     result         |-> result,
     explanation    |-> "explanation",
     latex_result   |-> "latex"]

\* the response for a result with success set
SuccessResponse(note_type, equation, result) ==
    [success        |-> TRUE,
     classification |-> [problem_type  |-> note_type,
                         specific_type |-> Get(result, "type", note_type),
                         confidence    |-> 10,
                         equation      |-> equation],
     result         |-> result,
     explanation    |-> "explanation",
     latex_result   |-> "latex"]

\* the response for a result without success
FailureResponse(note_type, equation, result) ==
    [success        |-> FALSE,
     classification |-> [problem_type |-> note_type, equation |-> equation],
     result         |-> None,
     explanation    |-> Get(result, "error", "Failed to solve"),
     error          |-> Get(result, "error", None)]

\* the response of the except clause
ExceptionResponse(note_type, equation) ==
    [success        |-> FALSE,
     classification |-> [problem_type |-> note_type, equation |-> equation],
     result         |-> None,
     explanation    |-> "exception",
     error          |-> "exception"]

----------------------------------------------------------------------------
(* SmartMathEngine.process *)

\* part in problem_type, on the problem types of the model
NameContains(problem_type, part) ==
    CASE part = "derivative" -> problem_type = "calculus_derivative"
      [] part = "integral"   -> problem_type = "calculus_integral"
      [] part = "limit"      -> problem_type = "calculus_limit"
      [] part = "physics"    -> problem_type \in {"physics", "physics_kinematics", "physics_force",
                                                  "physics_energy", "physics_electricity"}
      [] part = "statistics" -> problem_type = "statistics"

\* the minimal classification of the fast path
HintedClassification(note_type, user_input) ==
    [problem_type |-> note_type,
     confidence   |-> 10,
     equation     |-> user_input,
     operation    |-> "solve",
     solve_for    |-> None,
     limits       |-> <<>>]

\* the solver a classification is routed to
Route(classification) ==
    LET problem_type == classification.problem_type
        operation    == classification.operation
    IN  IF operation = "differentiate" \/ NameContains(problem_type, "derivative")
        THEN "derivative"
        ELSE IF operation = "integrate" \/ NameContains(problem_type, "integral")
        THEN "integral"
        ELSE IF operation = "limit" \/ NameContains(problem_type, "limit")
        THEN "limit"
        ELSE IF NameContains(problem_type, "physics") THEN "physics_solution"
        ELSE IF NameContains(problem_type, "statistics") THEN "statistics"
        ELSE IF operation = "simplify" THEN "simplification"
        ELSE IF operation = "factor" THEN "factorization"
        ELSE "equation_solution"

\* the statistics solver is a placeholder that cannot fail; whatever another
\* solver raises becomes an error result
_route_to_solver(classification, backend, auto) ==
    IF Route(classification) /= "statistics" /\ backend /= "ok"
    THEN [type |-> "error", error |-> "exception",
          original_input |-> classification.equation]
    ELSE IF Route(classification) = "equation_solution"
    THEN [type     |-> "equation_solution",
          variable |-> IF classification.solve_for /= None
                       THEN classification.solve_for ELSE auto]
    ELSE [type |-> Route(classification)]

\* the same without the try block: what the classifier raises escapes
process_Unguarded(user_input, note_type, variables, backend, auto) ==
    LET classification ==
            IF note_type \notin {None, ""} /\ note_type /= "auto"
            THEN HintedClassification(note_type, user_input)
            ELSE classify(user_input, variables)
    IN  IF "raised" \in DOMAIN classification
        THEN classification
        ELSE [success        |-> TRUE,
              classification |-> classification,
              result         |-> _route_to_solver(classification, backend, auto),
              explanation    |-> "explanation"]

\* process(user_input, note_type); variables is what list(set(...)) returned
\* in the classifier
process(user_input, note_type, variables, backend, auto) ==
    LET classification ==
            IF note_type \notin {None, ""} /\ note_type /= "auto"
            THEN HintedClassification(note_type, user_input)
            ELSE classify(user_input, variables)
    IN  IF "raised" \in DOMAIN classification
        THEN [success |-> FALSE, error |-> "exception", classification |-> None,
              result |-> None, explanation |-> "Failed to process"]
        ELSE [success        |-> TRUE,
              classification |-> classification,
              result         |-> _route_to_solver(classification, backend, auto),
              explanation    |-> "explanation"]

----------------------------------------------------------------------------
(* Inputs *)

\* the texts made of at most n of the fragments F, one after the other
RECURSIVE TextsUpTo(_, _)
TextsUpTo(F, n) ==
    IF n = 0 THEN {<<>>}
    ELSE LET shorter == TextsUpTo(F, n - 1)
         IN  shorter \cup {s \o f : s \in shorter, f \in F}

\* the texts made of at most n of the words W, separated by single spaces
RECURSIVE SentencesUpTo(_, _)
SentencesUpTo(W, n) ==
    IF n = 0 THEN {<<>>}
    ELSE LET shorter == SentencesUpTo(W, n - 1)
         IN  shorter \cup {IF s = <<>> THEN w ELSE s \o <<" ">> \o w : s \in shorter, w \in W}

NormIdle == nText = <<>> /\ nOnce = <<>> /\ nTwice = <<>> /\ nPc = "idle"

ValidateIdle ==
    vEquation = <<>> /\ vOperation = "general" /\ vParse = "none" /\ vResult = <<>> /\ vPc = "idle"

ClassifyIdle == cText = <<>> /\ cFirst = <<>> /\ cSecond = <<>> /\ cPc = "idle"

RequestIdle ==
    /\ rEntry = "fast_solve" /\ rEquation = <<>> /\ rHint = None /\ rNoteType = None
    /\ rEq = <<>> /\ rResult = <<>> /\ rStages = <<>> /\ rResponse = <<>> /\ rPc = "idle"

MaxThreads == 3

\* the threads that call get_fast_solver
Threads == 1..MaxThreads

SolverIdle ==
    /\ _fast_solver = 0 /\ sConstructed = 0
    /\ sPc = [t \in Threads |-> "idle"]
    /\ sNew = [t \in Threads |-> 0]
    /\ sReturned = [t \in Threads |-> 0]

HistoryIdle == hExists = FALSE /\ hLines = <<>> /\ hClock = 0 /\ hReply = <<>>

----------------------------------------------------------------------------
(* The normalizer, run on its own output *)

MaxNormLen == 5

NormAlphabet == {<<"|">>, <<"x">>, <<"2">>, <<"^">>, <<" ">>, <<"U_sup2">>}

NormInit ==
    /\ nText \in TextsUpTo(NormAlphabet, MaxNormLen)
    /\ nOnce = <<>>
    /\ nTwice = <<>>
    /\ nPc = "start"
    /\ ValidateIdle /\ ClassifyIdle /\ RequestIdle /\ SolverIdle /\ HistoryIdle

NormalizeOnce ==
    /\ nPc = "start"
    /\ nOnce' = _clean_latex(nText)
    /\ nPc' = "once"
    /\ UNCHANGED <<nText, nTwice, vvars, cvars, rvars, svars, hvars>>

NormalizeAgain ==
    /\ nPc = "once"
    /\ nTwice' = _clean_latex(nOnce)
    /\ nPc' = "twice"
    /\ UNCHANGED <<nText, nOnce, vvars, cvars, rvars, svars, hvars>>

NormNext == NormalizeOnce \/ NormalizeAgain

SpecNorm == NormInit /\ [][NormNext]_vars

\* C1: for every input s, applying the normalizer to its own output changes
\* nothing: normalize(normalize(s)) = normalize(s)
C1_Idempotent == nPc = "twice" => nTwice = nOnce

----------------------------------------------------------------------------
(* The validator, called on its own *)

MaxValidatorFragments == 2

ValidatorFragments ==
    {<<"x">>, <<"+">>, <<"(">>, <<"{">>, <<BS,"i","n","t"," ">>, <<"d","x">>, <<"#">>,
     <<" ">>, <<"l","i","m">>, <<"d","/","d">>, <<BS,"c","d","o","t">>,
     <<BS,"i","n","t","_","0","^","2"," ">>, <<"*","*","*">>}

\* the operation types the solvers pass, and one they do not
OperationTypes ==
    {"integral", "derivative", "limit", "equation", "matrix", "general", "banana"}

ValidateInit ==
    /\ vEquation \in TextsUpTo(ValidatorFragments, MaxValidatorFragments)
    /\ vOperation = "general"
    /\ vParse = "none"
    /\ vResult = <<>>
    /\ vPc = "start"
    /\ NormIdle /\ ClassifyIdle /\ RequestIdle /\ SolverIdle /\ HistoryIdle

Validate ==
    /\ vPc = "start"
    /\ \E operation_type \in OperationTypes, parse \in ParseOutcomes :
          /\ vOperation' = operation_type
          /\ vParse' = parse
          /\ vResult' = _validate_equation(vEquation, operation_type, parse)
    /\ vPc' = "done"
    /\ UNCHANGED <<vEquation, nvars, cvars, rvars, svars, hvars>>

ValidateNext == Validate

SpecValidate == ValidateInit /\ [][ValidateNext]_vars

\* C2: for every string and every operation type the validator returns one
\* verdict, valid or invalid with an error kind, and nothing it calls raises
\* out of it
C2_ValidatorTotal ==
    vPc = "done" =>
        /\ "raised" \notin DOMAIN vResult
        /\ "valid" \in DOMAIN vResult
        /\ vResult.valid \in BOOLEAN
        /\ vResult.valid => DOMAIN vResult = {"valid"}
        /\ ~vResult.valid => "error" \in DOMAIN vResult

\* an integral without differential whose text the parser cannot parse: the
\* exception is swallowed and the generic diagnostic is returned
C2_Witness ==
    /\ vPc = "done"
    /\ vParse = "raise"
    /\ vEquation = <<BS,"i","n","t"," ","x">>
    /\ ~vResult.valid
    /\ vResult.error = "Missing differential in integral"

\* the text has an integral marker: \int, the integral sign or the word
\* integrate
IntegralMarker(equation) ==
    \/ Contains(equation, <<BS,"i","n","t">>)
    \/ Contains(equation, <<"U_int">>)
    \/ Contains(ToLower(equation), <<"i","n","t","e","g","r","a","t","e">>)

\* the text ends with a differential token d<var>
TrailingDifferential(equation) ==
    /\ Len(Strip(equation)) >= 2
    /\ Strip(equation)[Len(Strip(equation)) - 1] = "d"
    /\ Strip(equation)[Len(Strip(equation))] \in LowerLetters

\* C14: an input with an integral marker and no differential token d<var>
\* at its end fails validation with the missing-differential kind, wherever
\* else a letter d followed by a letter may stand in the text
C14_MissingDifferential ==
    (vPc = "done" /\ IntegralMarker(vEquation) /\ ~TrailingDifferential(vEquation)) =>
        /\ ~vResult.valid
        /\ vResult.error = "Missing differential in integral"

----------------------------------------------------------------------------
(* The classifier, called twice on the same text *)

MaxWords == 2

ClassifierWords ==
    {<<"d","e","r","i","v","a","t","i","v","e">>, <<"i","n","t","e","g","r","a","l">>,
     <<"i","n","t","e","g","r","a","t","e">>, <<"l","i","m","i","t">>, <<"m","e","a","n">>,
     <<"f","a","c","t","o","r">>, <<"f","i","n","d">>, <<"s","i","m","p","l","i","f","y">>,
     <<"p","l","o","t">>, <<"s","i","n">>, <<"x">>, <<"y">>,
     <<"s","o","l","v","e"," ","f","o","r">>}

ClassifyInit ==
    /\ cText \in SentencesUpTo(ClassifierWords, MaxWords)
    /\ cFirst = <<>>
    /\ cSecond = <<>>
    /\ cPc = "start"
    /\ NormIdle /\ ValidateIdle /\ RequestIdle /\ SolverIdle /\ HistoryIdle

\* a call of classify(cText); the list of variables comes in one of the
\* orders the hash seed of the process allows
Classify ==
    /\ cPc = "start"
    /\ \E variables \in Orders(_extract_variables_simple(cText)) :
          cFirst' = classify(cText, variables)
    /\ cPc' = "once"
    /\ UNCHANGED <<cText, cSecond, nvars, vvars, rvars, svars, hvars>>

\* another call on the same text, in a process of its own
ClassifyAgain ==
    /\ cPc = "once"
    /\ \E variables \in Orders(_extract_variables_simple(cText)) :
          cSecond' = classify(cText, variables)
    /\ cPc' = "twice"
    /\ UNCHANGED <<cText, cFirst, nvars, vvars, rvars, svars, hvars>>

ClassifyNext == Classify \/ ClassifyAgain

SpecClassify == ClassifyInit /\ [][ClassifyNext]_vars

\* for every category, the number of its patterns that match the text
CategoryScores(text) ==
    [n \in 1..Len(Patterns) |-> Score(Patterns[n], ToLower(text))]

\* the categories that reach the highest count
TopCategories(scores) ==
    {n \in DOMAIN scores : \A m \in DOMAIN scores : scores[m] <= scores[n]}

\* the category the claim names for the counts given
HighestFirstDeclared(scores) ==
    IF \A n \in DOMAIN scores : scores[n] = 0 THEN "algebra"
    ELSE Patterns[Min(TopCategories(scores))].name

TieAtTop(scores) ==
    /\ Cardinality(TopCategories(scores)) = 2
    /\ scores[Min(TopCategories(scores))] > 0

C6_ConfidenceSteps ==
    cPc = "once" =>
        cFirst.confidence =
            IF cFirst.problem_type /= "algebra"
            THEN (IF cFirst.operation /= "solve" THEN 9 ELSE 7)
            ELSE (IF cFirst.operation /= "solve" THEN 6 ELSE 5)

\* the default problem type with a specific operation
C6_Witness ==
    /\ cPc = "once"
    /\ cFirst.problem_type = "algebra"
    /\ cFirst.operation = "factor"
    /\ cFirst.confidence = 6

\* the operations one of whose keywords occurs in the lowercased text
OperationsPresent ==
    {n \in 1..Len(OperationKeywords) :
        \E k \in 1..Len(OperationKeywords[n].keywords) :
            Contains(ToLower(cText), OperationKeywords[n].keywords[k])}

\* C9: the operation is the first of solve, simplify, factor, differentiate,
\* integrate, limit, plot that has a keyword in the lowercased text, whatever
\* the problem type, and solve when there is none
C9_FirstOperation ==
    /\ [n \in 1..Len(OperationKeywords) |-> OperationKeywords[n].name]
         = <<"solve", "simplify", "factor", "differentiate", "integrate", "limit", "plot">>
    /\ cPc = "once" =>
          cFirst.operation =
              IF OperationsPresent = {} THEN "solve"
              ELSE OperationKeywords[Min(OperationsPresent)].name

\* keywords of two operations occur, factor and integrate, and the earlier one
\* is reported although the problem type is that of the later one
C9_Witness ==
    /\ cPc = "once"
    /\ Cardinality(OperationsPresent) = 2
    /\ cFirst.operation = "factor"
    /\ cFirst.problem_type = "calculus_integral"

\* C10: two classifications of the same text agree on problem type,
\* operation and confidence
C10_Deterministic ==
    cPc = "twice" =>
        /\ cFirst.problem_type = cSecond.problem_type
        /\ cFirst.operation = cSecond.operation
        /\ cFirst.confidence = cSecond.confidence

\* the two calls saw the variables in different orders
C10_Witness ==
    /\ cPc = "twice"
    /\ cFirst.variables /= cSecond.variables
    /\ cFirst.problem_type = cSecond.problem_type

\* the variable of the first occurrence of "<prefix> <var>" in the text, the
\* variable being a letter that stands alone, and None when there is none
FormVariable(prefix, text) ==
    LET p == <<Lit(prefix), Cls(Whitespace, "plus"), Cls(LowerLetters, "one"), WB>>
        m == ToLower(text)
        i == FirstStart(p, m, 1)
    IN  IF i = 0 THEN None ELSE text[GreedyEnds(p, 1, m, i)[3] - 1]

\* the target the forms name, in the order solve for, find, what is
NamedTarget(text) ==
    IF FormVariable(<<"s","o","l","v","e"," ","f","o","r">>, text) /= None
    THEN FormVariable(<<"s","o","l","v","e"," ","f","o","r">>, text)
    ELSE IF FormVariable(<<"f","i","n","d">>, text) /= None
    THEN FormVariable(<<"f","i","n","d">>, text)
    ELSE FormVariable(<<"w","h","a","t"," ","i","s">>, text)

\* C11: the target is the variable of the first of the forms "solve for
\* <var>", "find <var>", "what is <var>" that occurs in the text; when none
\* occurs it is x if x is among the extracted variables, else the first
\* extracted variable, else none
C11_SolveTarget ==
    cPc = "once" =>
        cFirst.solve_for =
            IF NamedTarget(cText) /= None THEN NamedTarget(cText)
            ELSE IF \E k \in 1..Len(cFirst.variables) : cFirst.variables[k] = "x" THEN "x"
            ELSE IF cFirst.variables /= <<>> THEN cFirst.variables[1]
            ELSE None

----------------------------------------------------------------------------
(* The extraction of limits, called on its own *)

MaxLimitFragments == 2

LimitFragments ==
    {<<"f","r","o","m"," ","1">>, <<"f","r","o","m"," ","-">>,
     <<"b","e","t","w","e","e","n"," ","1",".","2",".","3">>,
     <<" ","t","o"," ","2">>, <<" ","a","n","d"," ",".","5">>,
     <<"[","1">>, <<"[","a">>, <<",","2","]">>, <<","," ","b","]">>, <<".">>}

LimitsInit ==
    /\ cText \in TextsUpTo(LimitFragments, MaxLimitFragments)
    /\ cFirst = <<>>
    /\ cSecond = <<>>
    /\ cPc = "start"
    /\ NormIdle /\ ValidateIdle /\ RequestIdle /\ SolverIdle /\ HistoryIdle

\* a call of _extract_limits(cText)
ExtractLimits ==
    /\ cPc = "start"
    /\ cFirst' = _extract_limits(cText)
    /\ cPc' = "limits"
    /\ UNCHANGED <<cText, cSecond, nvars, vvars, rvars, svars, hvars>>

LimitsNext == ExtractLimits

SpecLimits == LimitsInit /\ [][LimitsNext]_vars

\* C13: _extract_limits never raises; a bound that is not a number gives no
\* limits, in each of the forms "from A to B", "between A and B" and "[A, B]"
C13_LimitsNeverRaise == cPc = "limits" => ~cFirst.raised

----------------------------------------------------------------------------
(* Requests: fast_solve(equation, note_type) and                           *)
(* SmartMathEngine.process(user_input, note_type)                          *)

MaxRequestFragments == 1

RequestFragments ==
    {<<"x">>, <<"=">>, <<"(">>, <<"#">>, <<"m","e","a","n"," ","1">>,
     <<"m","e","a","n"," ","1","#">>, <<BS,"i","n","t"," ","x">>,
     <<BS,"i","n","t"," ","x"," ","d","x">>, <<"f","i","n","d"," ","y">>,
     <<"f","r","o","m"," ","-"," ","t","o"," ","2">>}

\* the note types a caller passes: none, the documented ones, an alias in
\* capitals and a string the router does not know
NoteTypes ==
    {None, "auto", "algebra", "calculus", "physics", "trigonometry", "statistics",
     "linear_algebra", "Stats", "banana"}

RequestInit ==
    /\ rEntry \in {"fast_solve", "process"}
    /\ rEquation \in TextsUpTo(RequestFragments, MaxRequestFragments)
    /\ rHint \in NoteTypes
    /\ rNoteType = None
    /\ rEq = <<>>
    /\ rResult = <<>>
    /\ rStages = <<>>
    /\ rResponse = <<>>
    /\ rPc = "start"
    /\ NormIdle /\ ValidateIdle /\ ClassifyIdle /\ SolverIdle /\ HistoryIdle

\* fast_solve up to the routing: the note type and the equation are settled
Preprocess ==
    /\ rEntry = "fast_solve" /\ rPc = "start"
    /\ rEq' = PreprocessEquation(rEquation)
    /\ rNoteType' = RoutedNoteType(rHint, PreprocessEquation(rEquation))
    /\ rPc' = "routed"
    /\ UNCHANGED <<rEntry, rEquation, rHint, rResult, rStages, rResponse, nvars, vvars, cvars, svars, hvars>>

\* the solver's value becomes the result of the request
Solved(solved) ==
    /\ rResult' = solved.result
    /\ rStages' = solved.stages
    /\ rPc' = "solved"
    /\ UNCHANGED <<rEntry, rEquation, rHint, rNoteType, rEq, rResponse, nvars, vvars, cvars, svars, hvars>>

SolveCalculus ==
    /\ rPc = "routed" /\ rNoteType = "calculus"
    /\ \E parse \in ParseOutcomes, backend \in BackendOutcomes :
          Solved(solve_calculus(rEq, parse, backend))

SolvePhysics ==
    /\ rPc = "routed" /\ rNoteType = "physics"
    /\ \E parse \in ParseOutcomes, backend \in BackendOutcomes :
          Solved(solve_physics(rEq, parse, backend))

SolveTrigonometry ==
    /\ rPc = "routed" /\ rNoteType \in {"trigonometry", "trig"}
    /\ \E backend \in BackendOutcomes : Solved(solve_trigonometry(rEq, backend))

SolveStatistics ==
    /\ rPc = "routed" /\ rNoteType \in {"statistics", "stats"}
    /\ \E backend \in BackendOutcomes : Solved(solve_statistics(rEq, backend))

SolveLinearAlgebra ==
    /\ rPc = "routed" /\ rNoteType \in {"linear_algebra", "matrix"}
    /\ \E parse \in ParseOutcomes, backend \in BackendOutcomes :
          Solved(solve_linear_algebra(rEq, parse, backend))

SolveEquation ==
    /\ rPc = "routed"
    /\ rNoteType \notin {"calculus", "physics", "trigonometry", "trig", "statistics", "stats",
                         "linear_algebra", "matrix"}
    /\ \E parse \in ParseOutcomes, backend \in BackendOutcomes,
          auto \in AutoVariables(_clean_latex(rEq)) :
          Solved(solve_equation(rEq, parse, backend, auto))

\* the response is built; formatting a successful result may raise, and then
\* the except clause of fast_solve answers
Respond ==
    /\ rPc = "solved"
    /\ \/ /\ rResult.success
          /\ rResponse' \in {SuccessResponse(rNoteType, rEq, rResult),
                             ExceptionResponse(rNoteType, rEq)}
       \/ /\ ~rResult.success
          /\ rResponse' = FailureResponse(rNoteType, rEq, rResult)
    /\ rPc' = "done"
    /\ UNCHANGED <<rEntry, rEquation, rHint, rNoteType, rEq, rResult, rStages, nvars, vvars, cvars, svars, hvars>>

\* SmartMathEngine.process, from the call to the response
Process ==
    /\ rEntry = "process" /\ rPc = "start"
    /\ \E variables \in Orders(_extract_variables_simple(rEquation)),
          backend \in BackendOutcomes, auto \in AutoVariables(rEquation) :
          rResponse' = process(rEquation, rHint, variables, backend, auto)
    /\ rStages' = <<"classify", "backend">>
    /\ rPc' = "done"
    /\ UNCHANGED <<rEntry, rEquation, rHint, rNoteType, rEq, rResult, nvars, vvars, cvars, svars, hvars>>

Next ==
    \/ Preprocess
    \/ SolveCalculus
    \/ SolvePhysics
    \/ SolveTrigonometry
    \/ SolveStatistics
    \/ SolveLinearAlgebra
    \/ SolveEquation
    \/ Respond
    \/ Process

Spec == RequestInit /\ [][Next]_vars

\* the validator rejects the text whatever the operation type: a text that
\* fails with the type general fails with every other type
RejectedByValidator(equation) == ~_validate_equation(equation, "general", "none").valid

\* C3: when validation rejects the input, the response of fast_solve carries
\* an error kind, a user message, a suggestion and a hint
C3_RejectionCarriesGuidance ==
    (rEntry = "fast_solve" /\ rPc = "done" /\ rStages = <<"validate">>) =>
        /\ "error" \in DOMAIN rResponse
        /\ ("user_message" \in DOMAIN rResponse \/ "message" \in DOMAIN rResponse)
        /\ "suggestion" \in DOMAIN rResponse
        /\ "hint" \in DOMAIN rResponse

\* C4: in fast_solve no stage after validation runs on an input that the
\* validator rejects
C4_StopsAtValidation ==
    (rEntry = "fast_solve" /\ rPc \in {"solved", "done"} /\ RejectedByValidator(rEq)) =>
        rStages = <<"validate">>

\* C7: when the caller gives a note type and the solve succeeds, the
\* confidence of the classification in the response is 1.0
C7_HintedConfidence ==
    (rPc = "done" /\ rHint \notin {None, "", "auto"} /\ rResponse.success) =>
        rResponse.classification.confidence = 10

\* fast_solve succeeded on a request with the note type statistics
C7_Witness ==
    /\ rPc = "done"
    /\ rEntry = "fast_solve"
    /\ rHint = "statistics"
    /\ rResponse.success
    /\ rResponse.classification.confidence = 10

\* the categories of the classifier's table and the note types fast_solve
\* documents
ProblemTypes ==
    {Patterns[n].name : n \in 1..Len(Patterns)}
        \cup {"algebra", "calculus", "physics", "trigonometry", "statistics", "linear_algebra"}

\* C8: the problem type of every classification in a response is one of the
\* fixed categories
C8_ClosedProblemTypes ==
    (rPc = "done" /\ (rEntry = "fast_solve" \/ rResponse.success)) =>
        rResponse.classification.problem_type \in ProblemTypes

\* the variable an explicit instruction of the text names: that of "solve for
\* <var>", else that of "find <var>", else None
InstructedVariable(text) ==
    IF FormVariable(<<"s","o","l","v","e"," ","f","o","r">>, text) /= None
    THEN FormVariable(<<"s","o","l","v","e"," ","f","o","r">>, text)
    ELSE FormVariable(<<"f","i","n","d">>, text)

\* C12: when the input says "solve for v" or "find v", the variable reported
\* in the solve result is v, with or without a note type from the caller
C12_ExplicitVariable ==
    (/\ rPc = "done" /\ rResponse.success
     /\ Get(rResponse.result, "type", None) /= "error"
     /\ InstructedVariable(rEquation) /= None) =>
        Get(rResponse.result, "variable", None) = InstructedVariable(rEquation)

\* the note types fast_solve has a route for
KnownNoteTypes ==
    {"algebra", "general", "calculus", "physics", "trigonometry", "trig", "statistics",
     "stats", "linear_algebra", "matrix"}

\* C15: when no route matches the note type, fast_solve answers that the
\* operation was not identified and runs no solver on the text
C15_NoDefaultSolver ==
    (rEntry = "fast_solve" /\ rPc \in {"solved", "done"} /\ rNoteType \notin KnownNoteTypes) =>
        /\ rStages = <<>>
        /\ ~rResult.success

\* C16: what a solver hands back is a dict that fast_solve can answer from,
\* and the answer to every request is a structured result with a success
\* flag: nothing raised on the way escapes to the caller
C16_StructuredResult ==
    /\ rPc = "solved" => rResult.success \in BOOLEAN
    /\ rPc = "done" =>
          /\ "raised" \notin DOMAIN rResponse
          /\ "success" \in DOMAIN rResponse
          /\ rResponse.success \in BOOLEAN

\* the classifier raised on the text and process answered with a failure
C16_Witness ==
    /\ rPc = "done"
    /\ rEntry = "process"
    /\ rHint = None
    /\ rEquation = <<"f","r","o","m"," ","-"," ","t","o"," ","2">>
    /\ ~rResponse.success
    /\ rResponse.error = "exception"

\* C17: a response says success only when the routed solver produced a
\* solution; when the solver raised or returned an error outcome the response
\* says failure and carries the error
C17_SuccessMeansSolved ==
    /\ (rPc = "done" /\ rResponse.success) =>
          /\ Get(rResponse.result, "type", None) /= "error"
          /\ "error" \notin DOMAIN rResponse.result
    /\ (rPc = "done" /\ rEntry = "fast_solve" /\ ~rResult.success) =>
          /\ ~rResponse.success
          /\ rResponse.error = rResult.error

\* C18: the classification of every successful response has the fields
\* problem_type, operation, equation and confidence
C18_ClassificationFields ==
    (rPc = "done" /\ rResponse.success) =>
        {"problem_type", "operation", "equation", "confidence"}
            \subseteq DOMAIN rResponse.classification

----------------------------------------------------------------------------
(* get_fast_solver, called for the first time by several threads at once.  *)
(* The function takes no lock, so a thread can be preempted between any    *)
(* two of its steps: the test of the global, the constructor call, the     *)
(* store into the global and the read of the global for the return.        *)

SolverInit ==
    /\ _fast_solver = 0
    /\ sConstructed = 0
    /\ sPc = [t \in Threads |-> "test"]
    /\ sNew = [t \in Threads |-> 0]
    /\ sReturned = [t \in Threads |-> 0]
    /\ NormIdle /\ ValidateIdle /\ ClassifyIdle /\ RequestIdle /\ HistoryIdle

\* if _fast_solver is None:
TestNone(t) ==
    /\ sPc[t] = "test"
    /\ sPc' = [sPc EXCEPT ![t] = IF _fast_solver = 0 THEN "construct" ELSE "return"]
    /\ UNCHANGED <<_fast_solver, sConstructed, sNew, sReturned, nvars, vvars, cvars, rvars, hvars>>

\* FastMathSolver(): each call makes a new instance, numbered in order
Construct(t) ==
    /\ sPc[t] = "construct"
    /\ sConstructed' = sConstructed + 1
    /\ sNew' = [sNew EXCEPT ![t] = sConstructed + 1]
    /\ sPc' = [sPc EXCEPT ![t] = "store"]
    /\ UNCHANGED <<_fast_solver, sReturned, nvars, vvars, cvars, rvars, hvars>>

\* _fast_solver = <the new instance>
Store(t) ==
    /\ sPc[t] = "store"
    /\ _fast_solver' = sNew[t]
    /\ sPc' = [sPc EXCEPT ![t] = "return"]
    /\ UNCHANGED <<sConstructed, sNew, sReturned, nvars, vvars, cvars, rvars, hvars>>

\* return _fast_solver
Return(t) ==
    /\ sPc[t] = "return"
    /\ sReturned' = [sReturned EXCEPT ![t] = _fast_solver]
    /\ sPc' = [sPc EXCEPT ![t] = "done"]
    /\ UNCHANGED <<_fast_solver, sConstructed, sNew, nvars, vvars, cvars, rvars, hvars>>

SolverNext == \E t \in Threads : TestNone(t) \/ Construct(t) \/ Store(t) \/ Return(t)

SpecSolver == SolverInit /\ [][SolverNext]_vars

\* C19: whatever the interleaving of the first calls, FastMathSolver is
\* constructed at most once and all the calls that have returned have
\* returned the same instance
C19_ConstructedOnce ==
    /\ sConstructed <= 1
    /\ \A t, u \in Threads :
          (sPc[t] = "done" /\ sPc[u] = "done") => sReturned[t] = sReturned[u]

----------------------------------------------------------------------------
(* The solve-history log of the service: MATH_HISTORY_FILE, one JSON line  *)
(* per /solve_math request, and the three endpoints that touch it.         *)

MaxRequests == 3

\* the equations sent to /solve_math
HistoryEquations == {<<"x">>, <<"=">>}

\* what fast_solve does with a request: it answers with success true, it
\* answers with success false, or an exception leaves it
FastSolveOutcomes == {"solved", "failed", "raised"}

HistoryInit ==
    /\ hExists = FALSE
    /\ hLines = <<>>
    /\ hClock = 0
    /\ hReply = <<>>
    /\ NormIdle /\ ValidateIdle /\ ClassifyIdle /\ RequestIdle /\ SolverIdle

\* POST /solve_math: history_entry after fast_solve returned, error_entry
\* after it raised; the append is attempted in both cases and a failure of
\* the append is swallowed
solve_math ==
    /\ hClock < MaxRequests
    /\ \E equation \in HistoryEquations, outcome \in FastSolveOutcomes, written \in BOOLEAN :
          LET entry == [timestamp |-> hClock + 1,
                        equation |-> equation,
                        success |-> outcome = "solved",
                        error |-> IF outcome = "solved" THEN None ELSE "error"]
          IN  /\ hLines' = IF written THEN Append(hLines, entry) ELSE hLines
              /\ hExists' = (hExists \/ written)
              /\ hReply' = [success |-> outcome = "solved", error |-> entry.error]
    /\ hClock' = hClock + 1
    /\ UNCHANGED <<nvars, vvars, cvars, rvars, svars>>

\* GET /math_history: the statistics of the entries read from the file
get_math_history ==
    /\ hReply' = [total_requests |-> IF hExists THEN Len(hLines) ELSE 0,
                  successful_requests |->
                      IF hExists THEN Cardinality({i \in 1..Len(hLines) : hLines[i].success})
                      ELSE 0]
    /\ UNCHANGED <<hExists, hLines, hClock, nvars, vvars, cvars, rvars, svars>>

\* DELETE /math_history: unlink the file when it exists; a failing unlink
\* is answered with status 500
clear_math_history ==
    \E unlinked \in BOOLEAN :
       /\ hExists' = (hExists /\ ~unlinked)
       /\ hLines' = IF hExists /\ unlinked THEN <<>> ELSE hLines
       /\ hReply' = IF hExists /\ ~unlinked
                    THEN [status |-> 500]
                    ELSE [success |-> TRUE, message |-> "Math solver history cleared"]
       /\ UNCHANGED <<hClock, nvars, vvars, cvars, rvars, svars>>

HistoryNext == solve_math \/ get_math_history \/ clear_math_history

SpecHistory == HistoryInit /\ [][HistoryNext]_vars

\* C20: the log is append-only: no step of the service removes an entry
\* from the log, so an entry that solve_math appended is in the log in
\* every later state
C20_AppendOnly ==
    [][\A i \in 1..Len(hLines) : \E j \in 1..Len(hLines') : hLines'[j] = hLines[i]]_vars

----------------------------------------------------------------------------
(* Further properties of the validator                                     *)

\* the diagnostic of the first rule the text violates, among the first four
\* rules of the order: empty input, unbalanced parentheses, unbalanced
\* braces, integral without differential; None when it violates none of them
FirstViolatedRule(equation) ==
    IF Strip(equation) = <<>> THEN "Empty equation"
    ELSE IF CountChar(equation, "(") /= CountChar(equation, ")") THEN "Unbalanced parentheses"
    ELSE IF CountChar(equation, "{") /= CountChar(equation, "}") THEN "Unbalanced braces"
    ELSE IF IntegralMarker(equation) /\ ~Search(DifferentialPattern, equation)
    THEN "Missing differential in integral"
    ELSE None

\* C21: whatever the operation hint, a text that violates one of the rules
\* is rejected with the diagnostic of the rule that comes first in the order
\* empty input, unbalanced parentheses, unbalanced braces, integral without
\* differential (and then the later rules)
C21_FirstRuleWins ==
    (vPc = "done" /\ FirstViolatedRule(vEquation) /= None) =>
        /\ ~vResult.valid
        /\ vResult.error = FirstViolatedRule(vEquation)

----------------------------------------------------------------------------
(* solve_calculus, called on its own *)

MaxCalculusFragments == 2

\* the beginnings and the ends of the texts given to solve_calculus
CalculusFragments ==
    {<<BS,"i","n","t"," ">>,
     <<BS,"i","n","t","_","{","0","}","^","{","2","}"," ">>,
     <<BS,"i","n","t","_","0","^","2"," ">>,
     <<BS,"l","i","m","_","{","x",BS,"t","o"," ","0","}"," ">>,
     <<"d","/","d","x"," ">>,
     <<"x"," ","d","x">>,
     <<"x","d","x">>,
     <<"2","x"," ","d","x">>,
     <<"x","^","{","2","}","d","x">>,
     <<"x","*",BS,"c","o","s","(","x",")"," ","d","x">>,
     <<BS,"s","i","n","(","x",")","*",BS,"e","x","p","(","x",")"," ","d","x">>,
     <<"x"," ","d","e","l","t","a"," ","d","x">>,
     <<"x"," ",BS,"c","d","o","t"," ","y"," ","d","y">>,
     <<BS,"i","n","t"," ","x"," ","d","x">>,
     <<BS,"i","n","t","_","{","0","}","^","{","2","}"," ","x"," ","d","x">>}

CalculusInit ==
    /\ rEntry = "solve_calculus"
    /\ rEquation \in TextsUpTo(CalculusFragments, MaxCalculusFragments)
    /\ rHint = None /\ rNoteType = None
    /\ rEq = <<>> /\ rResult = <<>> /\ rStages = <<>> /\ rResponse = <<>>
    /\ rPc = "start"
    /\ NormIdle /\ ValidateIdle /\ ClassifyIdle /\ SolverIdle /\ HistoryIdle

\* solver.solve_calculus(equation)
CallSolveCalculus ==
    /\ rEntry = "solve_calculus" /\ rPc = "start"
    /\ \E parse \in ParseOutcomes, backend \in BackendOutcomes :
          /\ rResult' = solve_calculus(rEquation, parse, backend).result
          /\ rStages' = solve_calculus(rEquation, parse, backend).stages
    /\ rPc' = "solved"
    /\ UNCHANGED <<rEntry, rEquation, rHint, rNoteType, rEq, rResponse, nvars, vvars, cvars, svars, hvars>>

CalculusNext == CallSolveCalculus

SpecCalculus == CalculusInit /\ [][CalculusNext]_vars

\* the chain that decides the text in the order definite integral,
\* indefinite integral, derivative, limit; None when no chain matches
FirstChainInOrder(equation) ==
    IF Search(DefiniteIntegralPattern, equation) THEN "definite_integral"
    ELSE IF Search(IndefiniteIntegralPattern, equation) THEN "indefinite_integral"
    ELSE IF SearchAny(EarlyDerivativePatterns, equation) THEN "derivative"
    ELSE IF SearchAny(LimitPatterns, equation) THEN "limit"
    ELSE None

\* C22: a validated calculus text that matches the patterns of several
\* chains is decided by the first that matches in the order definite
\* integral, indefinite integral, derivative, limit
C22_ChainOrder ==
    (/\ rEntry = "solve_calculus" /\ rPc = "solved"
     /\ Len(rStages) = 3
     /\ FirstChainInOrder(_convert_unicode_to_latex(rEquation)) /= None) =>
        rStages[3] = FirstChainInOrder(_convert_unicode_to_latex(rEquation))

\* the text has an integral with both bounds and a differential:
\* \int_{a}^{b} E d<var>, with or without whitespace before the differential
BoundedIntegralForm ==
    <<Lit(<<BS,"i","n","t","_","{">>), NCls({"}"}, "plus"), Lit(<<"}","^","{">>),
      NCls({"}"}, "plus"), Lit(<<"}">>), Dot("plus"), Lit(<<"d">>), Cls(LowerLetters, "one")>>

\* C23: a validated text whose integral has both bounds and a differential
\* is never taken by the indefinite-integral chain
C23_DefiniteNotIndefinite ==
    (/\ rEntry = "solve_calculus" /\ rPc = "solved"
     /\ rStages /= <<"validate">>
     /\ Search(BoundedIntegralForm, rEquation)) =>
        rStages[Len(rStages)] /= "indefinite_integral"

\* the text is \int E d<v> and nothing else, and E has no newline: the
\* pattern, unanchored, is matched against the whole text
WholeIndefiniteForm ==
    <<Lit(<<BS,"i","n","t">>), Cls(Whitespace, "star"), Dot("plus"), Lit(<<"d">>),
      Cls(LowerLetters, "one")>>

\* the E of a text \int E d<v>, without the whitespace around it
WholeIntegrand(equation) == Strip(SubSeq(equation, 5, Len(equation) - 2))

\* C26: for a validated indefinite integral \int E d<v> the integral computed
\* has the v of the trailing differential as its variable and the whole of E
\* as its integrand, whatever letter d followed by a lowercase letter E holds
C26_WholeIntegrand ==
    (/\ rEntry = "solve_calculus" /\ rPc = "solved"
     /\ FullMatch(WholeIndefiniteForm, rEquation)
     /\ rResult.success
     /\ rResult.type = "indefinite_integral") =>
        /\ rResult.variable = <<rEquation[Len(rEquation)]>>
        /\ rResult.integrand.text = _clean_latex(WholeIntegrand(rEquation))

\* the factor is a transcendental function of the integration variable
Transcendental(arg) == arg.kind = "function" /\ arg.has_var

\* the factor is a polynomial of the integration variable, not a constant
PolynomialInVar(arg) == arg.kind \in {"symbol", "power"} /\ arg.has_var

\* C24: whenever the integration-by-parts branch is taken, no factor of u is
\* a transcendental function of the integration variable
C24_PolynomialIsU ==
    (/\ rEntry = "solve_calculus" /\ rPc = "solved"
     /\ rResult.success
     /\ rResult.type = "integration_by_parts") =>
        \A i \in 1..Len(rResult.u) : ~Transcendental(rResult.u[i])

\* the factors are a product of a polynomial of the integration variable and
\* a transcendental function of it
PolynomialTimesTranscendental(args) ==
    /\ \E i \in 1..Len(args) : PolynomialInVar(args[i])
    /\ \E i \in 1..Len(args) : Transcendental(args[i])

\* C25: an indefinite integral is solved by parts exactly when its integrand
\* is a product of a polynomial and a transcendental factor of the
\* integration variable, and directly for every other integrand
C25_ByPartsExactly ==
    /\ (/\ rEntry = "solve_calculus" /\ rPc = "solved"
        /\ rResult.success
        /\ rResult.type = "integration_by_parts") =>
           PolynomialTimesTranscendental(rResult.u \o rResult.dv)
    /\ (/\ rEntry = "solve_calculus" /\ rPc = "solved"
        /\ rResult.success
        /\ rResult.type = "indefinite_integral") =>
           ~PolynomialTimesTranscendental(rResult.integrand.args)

\* an integral sign with a lower and an upper bound, in braces or as single
\* characters: \int_{a}^{b} or \int_a^b
BothBoundsForms ==
    << DefiniteLatexPattern,
       DefiniteUnicodePattern,
       <<Alt(<< <<BS,"i","n","t">>, <<"U_int">> >>), Lit(<<"_">>),
         Cls(Letters \cup Digits, "one"), Lit(<<"^">>), Cls(Letters \cup Digits, "one")>> >>

\* C27: the validator reports an incomplete definite integral only for an
\* integral without a matching upper bound: an integral written with both
\* bounds, in braces or without, is not rejected as incomplete
C27_IncompleteOnlyWithoutUpper ==
    (vPc = "done" /\ Get(vResult, "error", "") = "Incomplete definite integral") =>
        ~SearchAny(BothBoundsForms, vEquation)

OperatorChars == {"+", "-", "*", "/", "^"}

\* the maximal runs of operator characters of the text, as the pairs of
\* their first and last positions
OperatorRuns(equation) ==
    {<<i, j>> \in (1..Len(equation)) \X (1..Len(equation)) :
        /\ i <= j
        /\ \A k \in i..j : equation[k] \in OperatorChars
        /\ (i = 1 \/ equation[i - 1] \notin OperatorChars)
        /\ (j = Len(equation) \/ equation[j + 1] \notin OperatorChars)}

\* the text has a run of two or more operator characters that is not
\* exactly ** or --
HasDoubledOperators(equation) ==
    \E run \in OperatorRuns(equation) :
        /\ run[2] > run[1]
        /\ SubSeq(equation, run[1], run[2]) \notin {<<"*","*">>, <<"-","-">>}

\* C29: a text with a run of two or more operator characters other than
\* exactly ** or -- is rejected, a run of three or more included, and the
\* doubled-operator diagnostic is given to no text without such a run
C29_DoubledOperators ==
    /\ (vPc = "done" /\ HasDoubledOperators(vEquation)) => ~vResult.valid
    /\ (vPc = "done" /\ Get(vResult, "error", "") = "Multiple consecutive operators") =>
           HasDoubledOperators(vEquation)

\* the Unicode characters the normalizer is to replace: the integral,
\* partial, sum, product, root and infinity signs, the comparison operators,
\* the superscript digits and the Greek letters
MappedGlyphs ==
    {"U_int", "U_part", "U_sum", "U_prod", "U_sqrt", "U_inf", "U_ne", "U_le", "U_ge",
     "U_sup0", "U_sup1", "U_sup2", "U_sup3", "U_sup4", "U_sup5", "U_sup6", "U_sup7",
     "U_sup8", "U_sup9"}
      \cup GreekLower \cup GreekUpper

\* C28: the text _clean_latex returns, which is what solve_equation parses,
\* holds none of the Unicode characters the normalizer is to replace
C28_NoMappedGlyphLeft ==
    nPc \in {"once", "twice"} => \A i \in 1..Len(nOnce) : nOnce[i] \notin MappedGlyphs

\* the place in the text of the letter that r'<prefix>\s+([a-zA-Z])' captures
\* at its first match, 0 when the form does not occur
ExplicitPlace(prefix, text) ==
    LET p == <<Lit(prefix), Cls(Whitespace, "plus"), Cls(LowerLetters, "one")>>
        m == ToLower(text)
        i == FirstStart(p, m, 1)
    IN  IF i = 0 THEN 0 ELSE GreedyEnds(p, 1, m, i)[3] - 1

\* the place of the target of the first explicit form that occurs, in the
\* order solve for, find, what is
FirstExplicitPlace(text) ==
    IF ExplicitPlace(<<"s","o","l","v","e"," ","f","o","r">>, text) /= 0
    THEN ExplicitPlace(<<"s","o","l","v","e"," ","f","o","r">>, text)
    ELSE IF ExplicitPlace(<<"f","i","n","d">>, text) /= 0
    THEN ExplicitPlace(<<"f","i","n","d">>, text)
    ELSE ExplicitPlace(<<"w","h","a","t"," ","i","s">>, text)

\* C30: a target returned through one of the explicit forms "solve for",
\* "find", "what is" is a letter of the text that no other letter follows,
\* never the first letter of a longer word
C30_IsolatedTarget ==
    (cPc = "once" /\ FirstExplicitPlace(cText) /= 0) =>
        LET k == FirstExplicitPlace(cText)
        IN  /\ cFirst.solve_for = cText[k]
            /\ k = Len(cText) \/ ToLower(cText)[k + 1] \notin LowerLetters

====
